---- MODULE Spec2Model ----
(***************************************************************************)
(* The function service cache (fscache.FunctionServiceCache) and the       *)
(* Container executor (container.Container) of fission, as a state         *)
(* machine.  Goroutines are processes; every action performs at most one   *)
(* access to shared memory (one operation of a cache.Cache index, one load *)
(* or store of a field of a live *FuncSvc, one read of the clock, one      *)
(* channel rendezvous), so that the interleavings of the model are the     *)
(* interleavings of the program.                                           *)
(***************************************************************************)
EXTENDS Integers, Sequences, FiniteSets, TLC

\* ------------------------------------------------------------------ bounds
\* the clock runs from 1 to MaxTime
MaxTime == 2
\* number of *FuncSvc objects ever stored by Add (objects are never reused)
MaxObjs == 2
\* passes of the idle reaper
MaxPasses == 1
\* replicas a deployment has been scaled up to
MaxReplicas == 3
\* the create-or-get calls of the cluster API that fail
MaxFailures == 1
\* the longest function name and namespace name
MaxNameLen == 36
\* the longest function UID (the shortest has 17 characters)
MaxUIDLen == 18
\* the largest number given to a CPU or memory flag
MaxQuantity == 2

\* ------------------------------------------------------------- the domain
UIDs == {"u1", "u2"}
RVs == {1, 2}
Procs == {"p1", "p2"}
ExecutorTypeContainer == "container"
ExecutorTypePoolmgr == "poolmgr"

\* the zero time.Time of a FuncSvc whose Ctime/Atime were never assigned
ZeroTime == -1
\* a nil *FuncSvc
NilPtr == 0
Nil == [nil |-> TRUE]
\* a nil *int64 (an IdleTimeout that is not set), or a number that was never read
NilInt == -1

\* metav1.ObjectMeta of a function: UID and resource version decide the keys
Meta(u, r) == [uid |-> u, rv |-> r]
Metas == {Meta(u, r) : u \in UIDs, r \in RVs}

\* crd.CacheKeyURFromMeta: the by-function key is (UID, ResourceVersion)
CacheKeyURFromMeta(m) == <<m.uid, m.rv>>

VARIABLES
    now,            \* the clock read by time.Now()
    heap,           \* the *FuncSvc objects stored so far: pointer -> fields
    byFunction,     \* cache.Cache[CacheKeyUR, *FuncSvc]: key -> pointer
    byAddress,      \* cache.Cache[string, ObjectMeta]
    byFunctionUID,  \* cache.Cache[UID, ObjectMeta]
    pool,           \* connFunctionCache: the entries of the pool cache
    wpc,            \* the service() goroutine: where it is
    wreq,           \* the request it took from requestChannel
    wloc,           \* its locals
    pc,             \* each calling goroutine: where it is
    op,             \* the exported operation it is in (or was last in)
    arg,            \* the operation's argument
    loc,            \* the operation's locals
    ret,            \* what the last operation returned
    hist,           \* history: the last TouchByAddress of the goroutine that succeeded
    epc,            \* the Container method the goroutine runs ("none": it calls fsCache itself)
    eop,            \* the exported Container operation it is in (or was last in)
    earg,           \* that operation's argument
    eloc,           \* that operation's locals
    eret,           \* what the last Container operation returned
    locks,          \* the throttler: key -> state of the lock of that key
    functions,      \* the Function objects of the cluster: UID -> Function
    services,       \* the Service objects of the cluster: name -> object
    deployments,    \* the Deployment objects: name -> object (with its replicas)
    hpas,           \* the HorizontalPodAutoscaler objects: name -> object
    tasks,          \* the scale-down goroutines the reaper has started
    rlog            \* history: what the reaper passes saw and did

cacheVars == <<heap, byFunction, byAddress, byFunctionUID, pool>>
workerVars == <<wpc, wreq, wloc>>
procVars == <<pc, op, arg, loc, ret, hist>>
\* everything outside the fsCache: untouched by every step inside an fsCache method
execVars == <<epc, eop, earg, eloc, eret>>
clusterVars == <<functions, services, deployments, hpas>>
outerVars == <<execVars, locks, clusterVars, tasks, rlog>>
vars == <<now, cacheVars, workerVars, procVars, outerVars>>

\* ------------------------------------------------- cache.Cache operations
\* Get: the value, or a NotFound error
CacheHas(idx, k) == k \in DOMAIN idx
\* Set on an absent key stores the value
CacheSet(idx, k, v) == (k :> v) @@ idx
\* Delete removes the key (an absent key is an error the callers only log)
CacheDelete(idx, k) == [x \in DOMAIN idx \ {k} |-> idx[x]]
\* Copy: a snapshot of the values
CacheCopy(idx) == {idx[k] : k \in DOMAIN idx}

\* time.Since(t); the zero time is longer ago than any age
Since(t) == IF t = ZeroTime THEN MaxTime + 100 ELSE now - t

\* ------------------------------------------------------------ return values
RetErr(e) == [err |-> e, fsvc |-> Nil, objects |-> {}, deleted |-> FALSE]
RetFsvc(f) == [err |-> "nil", fsvc |-> f, objects |-> {}, deleted |-> FALSE]
RetObjects(s) == [err |-> "nil", fsvc |-> Nil, objects |-> s, deleted |-> FALSE]
RetBool(b) == [err |-> "nil", fsvc |-> Nil, objects |-> {}, deleted |-> b]
NoLoc == [ptr |-> NilPtr, tnow |-> 0, m |-> Nil]
NoReq == [requestType |-> "none", address |-> Nil, age |-> 0, from |-> "none"]
NoHist == [m |-> Nil, at |-> 0]
NoWloc == [ptr |-> NilPtr, tnow |-> 0, m |-> Nil, todo |-> {}, out |-> {}, err |-> "nil"]

\* the goroutine p calls fsCache method o with argument a
Call(p, o, a) ==
    /\ pc[p] = "idle"
    /\ op' = [op EXCEPT ![p] = o]
    /\ arg' = [arg EXCEPT ![p] = a]
    /\ hist' = [hist EXCEPT ![p] =
                   IF o = "TouchByAddress" THEN [m |-> Nil, at |-> now]
                   ELSE IF o = "GetByFunction" THEN @ ELSE NoHist]
\* p is inside method o at position at
At(p, o, at) ==
    /\ pc[p] = at
    /\ op[p] \in o
    /\ UNCHANGED <<op, arg, hist>>
\* p moves on to position next with locals l
Goto(p, next, l) ==
    /\ pc' = [pc EXCEPT ![p] = next]
    /\ loc' = [loc EXCEPT ![p] = l]
    /\ ret' = [ret EXCEPT ![p] = Nil]
\* p returns r from the method
Return(p, r) ==
    /\ pc' = [pc EXCEPT ![p] = "idle"]
    /\ loc' = [loc EXCEPT ![p] = NoLoc]
    /\ ret' = [ret EXCEPT ![p] = r]

\* ------------------------------------------------------------ the inputs
\* getObjName: the object name depends on the function's name, namespace and
\* UID (never on its resource version); one function per UID here
ObjNameOfMut(m) == <<"container", m.uid, m.rv>>
ObjNameOf(m) == <<"container", m.uid>>
\* fnCreate: svcAddress = svc.Name "." svc.Namespace
AddressOf(m) == <<ObjNameOf(m), "ns">>
Addresses == {AddressOf(m) : m \in Metas}
\* kubeObjRefs: the kinds, in the order of the slice; each reference carries the
\* Name of the object, which is objName for all three
KubeObjRefs(m) == <<"deployment", "service", "horizontalpodautoscaler">>
\* the FuncSvc fnCreate builds: Ctime and Atime are left zero
NewFuncSvcMut(m) ==
    [name |-> ObjNameOf(m), fn |-> m, addr |-> <<>>, kobjs |-> KubeObjRefs(m),
     exec |-> ExecutorTypeContainer, ctime |-> ZeroTime, atime |-> ZeroTime]
NewFuncSvc(m) ==
    [name |-> ObjNameOf(m), fn |-> m, addr |-> AddressOf(m), kobjs |-> KubeObjRefs(m),
     exec |-> ExecutorTypeContainer, ctime |-> ZeroTime, atime |-> ZeroTime]
Ages == {0, 1}

\* ================================================================ fsCache
\* ---- GetByFunction(m): byFunction.Get(key), then time.Now() is evaluated
GetByFunction(p, m) ==
    /\ Call(p, "GetByFunction", m)
    /\ LET key == CacheKeyURFromMeta(m) IN
       IF CacheHas(byFunction, key)
       THEN Goto(p, "get_store", [NoLoc EXCEPT !.ptr = byFunction[key], !.tnow = now])
       ELSE Return(p, RetErr("NotFound"))
    /\ UNCHANGED <<now, cacheVars, workerVars>>

\* ---- GetByFunctionUID(uid): byFunctionUID.Get(uid)
GetByFunctionUID(p, uid) ==
    /\ Call(p, "GetByFunctionUID", uid)
    /\ IF CacheHas(byFunctionUID, uid)
       THEN Goto(p, "gbu_get", [NoLoc EXCEPT !.m = byFunctionUID[uid]])
       ELSE Return(p, RetErr("NotFound"))
    /\ UNCHANGED <<now, cacheVars, workerVars>>

\* byFunction.Get(CacheKeyURFromMeta(&m)), then time.Now() is evaluated
GetByFunctionUID_Get(p) ==
    /\ At(p, {"GetByFunctionUID"}, "gbu_get")
    /\ LET key == CacheKeyURFromMeta(loc[p].m) IN
       IF CacheHas(byFunction, key)
       THEN Goto(p, "get_store", [NoLoc EXCEPT !.ptr = byFunction[key], !.tnow = now])
       ELSE Return(p, RetErr("NotFound"))
    /\ UNCHANGED <<now, cacheVars, workerVars, outerVars>>

\* fsvc.Atime = <the time evaluated>: an unsynchronised store to the live record
Get_StoreAtime(p) ==
    /\ At(p, {"GetByFunction", "GetByFunctionUID", "GetFuncSvc"}, "get_store")
    /\ heap' = [heap EXCEPT ![loc[p].ptr].atime = loc[p].tnow]
    /\ Goto(p, "get_copy", loc[p])
    /\ UNCHANGED <<now, byFunction, byAddress, byFunctionUID, pool, workerVars, outerVars>>

\* fsvcCopy := *fsvc; return &fsvcCopy
Get_Copy(p) ==
    /\ At(p, {"GetByFunction", "GetByFunctionUID", "GetFuncSvc"}, "get_copy")
    /\ Return(p, RetFsvc(heap[loc[p].ptr]))
    /\ UNCHANGED <<now, cacheVars, workerVars, outerVars>>

\* ---- Add(fsvc): byFunction.Set(key, &fsvc); stored, it goes on to time.Now();
\* on a name-exists collision it goes on to TouchByAddress(existing.Address)
Add(p, fsvc) ==
    /\ Call(p, "Add", fsvc)
    /\ LET key == CacheKeyURFromMeta(fsvc.fn) IN
       IF CacheHas(byFunction, key)
       THEN /\ Goto(p, "send", [NoLoc EXCEPT !.ptr = byFunction[key]])
            /\ UNCHANGED <<heap, byFunction>>
       ELSE /\ Len(heap) < MaxObjs
            /\ heap' = Append(heap, fsvc)
            /\ byFunction' = CacheSet(byFunction, key, Len(heap) + 1)
            /\ Goto(p, "add_ctime", [NoLoc EXCEPT !.ptr = Len(heap) + 1, !.tnow = now])
    /\ UNCHANGED <<now, byAddress, byFunctionUID, pool, workerVars>>

\* fsvc.Ctime = now
Add_StoreCtime(p) ==
    /\ At(p, {"Add"}, "add_ctime")
    /\ heap' = [heap EXCEPT ![loc[p].ptr].ctime = loc[p].tnow]
    /\ Goto(p, "add_atime", loc[p])
    /\ UNCHANGED <<now, byFunction, byAddress, byFunctionUID, pool, workerVars, outerVars>>

\* fsvc.Atime = now
Add_StoreAtime(p) ==
    /\ At(p, {"Add"}, "add_atime")
    /\ heap' = [heap EXCEPT ![loc[p].ptr].atime = loc[p].tnow]
    /\ Goto(p, "add_addr", loc[p])
    /\ UNCHANGED <<now, byFunction, byAddress, byFunctionUID, pool, workerVars, outerVars>>

\* byAddress.Set(fsvc.Address, *fsvc.Function): a name-exists error is turned into
\* nil, and Add returns (nil, err) right there
Add_ByAddress(p) ==
    /\ At(p, {"Add"}, "add_addr")
    /\ IF CacheHas(byAddress, arg[p].addr)
       THEN /\ Return(p, RetErr("nil"))
            /\ UNCHANGED byAddress
       ELSE /\ byAddress' = CacheSet(byAddress, arg[p].addr, arg[p].fn)
            /\ Goto(p, "add_uid", loc[p])
    /\ UNCHANGED <<now, heap, byFunction, byFunctionUID, pool, workerVars, outerVars>>

\* byFunctionUID.Set(fsvc.Function.UID, *fsvc.Function); return nil, nil
Add_ByFunctionUID(p) ==
    /\ At(p, {"Add"}, "add_uid")
    /\ byFunctionUID' = IF CacheHas(byFunctionUID, arg[p].fn.uid) THEN byFunctionUID
                        ELSE CacheSet(byFunctionUID, arg[p].fn.uid, arg[p].fn)
    /\ Return(p, RetErr("nil"))
    /\ UNCHANGED <<now, heap, byFunction, byAddress, pool, workerVars, outerVars>>

\* after the touch of the collision branch succeeded: fCopy := *existing
Add_CopyExisting(p) ==
    /\ At(p, {"Add"}, "add_copy")
    /\ Return(p, RetFsvc(heap[loc[p].ptr]))
    /\ UNCHANGED <<now, cacheVars, workerVars, outerVars>>

\* ---- the queued operations: the caller is about to send its request
TouchByAddress(p, address) ==
    /\ Call(p, "TouchByAddress", address)
    /\ Goto(p, "send", NoLoc)
    /\ UNCHANGED <<now, cacheVars, workerVars>>

ListOld(p, age) ==
    /\ Call(p, "ListOld", age)
    /\ Goto(p, "send", NoLoc)
    /\ UNCHANGED <<now, cacheVars, workerVars>>

ListOldForPool(p, age) ==
    /\ Call(p, "ListOldForPool", age)
    /\ Goto(p, "send", NoLoc)
    /\ UNCHANGED <<now, cacheVars, workerVars>>

Log(p) ==
    /\ Call(p, "Log", Nil)
    /\ Goto(p, "send", NoLoc)
    /\ UNCHANGED <<now, cacheVars, workerVars>>

\* the fscRequest the caller p builds (its responseChannel is its own: from)
RequestOf(p) ==
    CASE op[p] = "TouchByAddress" ->
           [requestType |-> "TOUCH", address |-> arg[p], age |-> 0, from |-> p]
      [] op[p] = "Add" ->
           [requestType |-> "TOUCH", address |-> heap[loc[p].ptr].addr, age |-> 0, from |-> p]
      [] op[p] = "ListOld" ->
           [requestType |-> "LISTOLD", address |-> Nil, age |-> arg[p], from |-> p]
      [] op[p] = "ListOldForPool" ->
           [requestType |-> "LISTOLDPOOL", address |-> Nil, age |-> arg[p], from |-> p]
      [] op[p] = "Log" ->
           [requestType |-> "LOG", address |-> Nil, age |-> 0, from |-> p]

\* ---- DeleteEntry(fsvc): byFunction.Delete(key)
DeleteEntry(p, fsvc) ==
    /\ Call(p, "DeleteEntry", fsvc)
    /\ byFunction' = CacheDelete(byFunction, CacheKeyURFromMeta(fsvc.fn))
    /\ Goto(p, "del_addr", NoLoc)
    /\ UNCHANGED <<now, heap, byAddress, byFunctionUID, pool, workerVars>>

\* byAddress.Delete(fsvc.Address)
DeleteEntry_ByAddress(p) ==
    /\ At(p, {"DeleteEntry", "DeleteOld"}, "del_addr")
    /\ byAddress' = CacheDelete(byAddress, arg[p].addr)
    /\ Goto(p, "del_uid", NoLoc)
    /\ UNCHANGED <<now, heap, byFunction, byFunctionUID, pool, workerVars, outerVars>>

\* byFunctionUID.Delete(fsvc.Function.UID); DeleteOld then returns true
DeleteEntry_ByFunctionUIDMut(p) ==
    /\ At(p, {"DeleteEntry", "DeleteOld"}, "del_uid")
    /\ Return(p, RetBool(op[p] = "DeleteOld"))
    /\ UNCHANGED <<now, cacheVars, workerVars, outerVars>>
DeleteEntry_ByFunctionUID(p) ==
    /\ At(p, {"DeleteEntry", "DeleteOld"}, "del_uid")
    /\ byFunctionUID' = CacheDelete(byFunctionUID, arg[p].fn.uid)
    /\ Return(p, RetBool(op[p] = "DeleteOld"))
    /\ UNCHANGED <<now, heap, byFunction, byAddress, pool, workerVars, outerVars>>

\* ---- DeleteOld(fsvc, minAge): time.Since(fsvc.Atime) < minAge returns false;
\* fsvc is the caller's value, not the cached record
TooYoungMut(fsvc, minAge) == Since(fsvc.atime) <= minAge
TooYoung(fsvc, minAge) == Since(fsvc.atime) < minAge

DeleteOld(p, fsvc, minAge) ==
    /\ Call(p, "DeleteOld", fsvc @@ [minAge |-> minAge])
    /\ IF TooYoung(fsvc, minAge)
       THEN /\ Goto(p, "old_young", NoLoc)
            /\ UNCHANGED byFunction
       ELSE /\ byFunction' = CacheDelete(byFunction, CacheKeyURFromMeta(fsvc.fn))
            /\ Goto(p, "del_addr", NoLoc)
    /\ UNCHANGED <<now, heap, byAddress, byFunctionUID, pool, workerVars>>

\* return false, nil
DeleteOld_ReturnFalse(p) ==
    /\ At(p, {"DeleteOld"}, "old_young")
    /\ Return(p, RetBool(FALSE))
    /\ UNCHANGED <<now, cacheVars, workerVars, outerVars>>

\* ================================================== service(): the worker
\* the loop takes the next request only at its top: for { req := <-requestChannel
WorkerReadyMut == TRUE
WorkerReady == wpc = "recv"
\* req.responseChannel <- resp: the reply goes to the channel the request carries
ReplyTo(req) == {req.from}

FirstStepOf(requestType) ==
    CASE requestType = "TOUCH" -> "touch_addr"
      [] requestType = "LISTOLD" -> "list_copy"
      [] requestType = "LOG" -> "log"
      [] requestType = "LISTOLDPOOL" -> "list_pool"

\* the rendezvous on the unbuffered requestChannel: p's send meets the receive
service_Receive(p) ==
    /\ WorkerReady
    /\ pc[p] = "send"
    /\ wreq' = RequestOf(p)
    /\ wpc' = FirstStepOf(RequestOf(p).requestType)
    /\ wloc' = NoWloc
    /\ pc' = [pc EXCEPT ![p] = "wait"]
    /\ UNCHANGED <<now, cacheVars, op, arg, loc, ret, hist, outerVars>>

\* case TOUCH: _touchByAddress: byAddress.Get(address)
touchByAddress_GetAddress ==
    /\ wpc = "touch_addr"
    /\ IF CacheHas(byAddress, wreq.address)
       THEN /\ wpc' = "touch_fn"
            /\ wloc' = [wloc EXCEPT !.m = byAddress[wreq.address]]
       ELSE /\ wpc' = "reply"
            /\ wloc' = [wloc EXCEPT !.err = "NotFound"]
    /\ UNCHANGED <<now, cacheVars, wreq, procVars, outerVars>>

\* byFunction.Get(CacheKeyURFromMeta(&m)), then time.Now() is evaluated
touchByAddress_GetFunctionMut ==
    /\ wpc = "touch_fn"
    /\ LET key == CacheKeyURFromMeta(wloc.m) IN
       IF CacheHas(byFunction, key)
       THEN /\ wpc' = "touch_store"
            /\ wloc' = [wloc EXCEPT !.ptr = byFunction[key], !.tnow = now]
       ELSE /\ wpc' = "reply"
            /\ wloc' = wloc
    /\ UNCHANGED <<now, cacheVars, wreq, procVars, outerVars>>
touchByAddress_GetFunction ==
    /\ wpc = "touch_fn"
    /\ LET key == CacheKeyURFromMeta(wloc.m) IN
       IF CacheHas(byFunction, key)
       THEN /\ wpc' = "touch_store"
            /\ wloc' = [wloc EXCEPT !.ptr = byFunction[key], !.tnow = now]
       ELSE /\ wpc' = "reply"
            /\ wloc' = [wloc EXCEPT !.err = "NotFound"]
    /\ UNCHANGED <<now, cacheVars, wreq, procVars, outerVars>>

\* fsvc.Atime = <the time evaluated>; return nil
touchByAddress_StoreAtime ==
    /\ wpc = "touch_store"
    /\ heap' = [heap EXCEPT ![wloc.ptr].atime = wloc.tnow]
    /\ wpc' = "reply"
    /\ UNCHANGED <<now, byFunction, byAddress, byFunctionUID, pool, wreq, wloc, procVars, outerVars>>

\* case LISTOLD: fscs := fsc.byFunctionUID.Copy()
service_ListOldCopy ==
    /\ wpc = "list_copy"
    /\ wloc' = [wloc EXCEPT !.todo = CacheCopy(byFunctionUID)]
    /\ wpc' = "list_iter"
    /\ UNCHANGED <<now, cacheVars, wreq, procVars, outerVars>>

\* one iteration of `for _, m := range fscs` (in any order): byFunction.Get; an
\* error makes service() return, without a reply; an entry idle for more than
\* req.age is appended, as the pointer to the live record
service_ListOldIter ==
    /\ wpc = "list_iter"
    /\ IF wloc.todo = {}
       THEN /\ wpc' = "reply"
            /\ UNCHANGED wloc
       ELSE \E m \in wloc.todo :
              LET key == CacheKeyURFromMeta(m) IN
              IF CacheHas(byFunction, key)
              THEN /\ wloc' = [wloc EXCEPT
                           !.todo = @ \ {m},
                           !.out = IF Since(heap[byFunction[key]].atime) > wreq.age
                                   THEN @ \cup {byFunction[key]} ELSE @]
                   /\ UNCHANGED wpc
              ELSE /\ wpc' = "exited"
                   /\ UNCHANGED wloc
    /\ UNCHANGED <<now, cacheVars, wreq, procVars, outerVars>>

\* case LOG: funcCopy := fsc.byFunction.Copy(), logged
service_Log ==
    /\ wpc = "log"
    /\ wpc' = "reply"
    /\ UNCHANGED <<now, cacheVars, wreq, wloc, procVars, outerVars>>

\* PoolCache.ListAvailableValue: the *FuncSvc of the Available entries
ListAvailableValue == {e.val : e \in {x \in pool : x.state = "Available"}}

\* case LISTOLDPOOL: the Available pool entries idle for more than req.age
service_ListOldPool ==
    /\ wpc = "list_pool"
    /\ wloc' = [wloc EXCEPT !.out = {f \in ListAvailableValue :
                                        Since(heap[f].atime) > wreq.age}]
    /\ wpc' = "reply"
    /\ UNCHANGED <<now, cacheVars, wreq, procVars, outerVars>>

\* req.responseChannel <- resp meets the caller's receive; TouchByAddress, ListOld,
\* ListOldForPool and Log return what they got; Add returns the touch's error, or
\* goes on to copy the existing entry
service_Reply ==
    /\ wpc = "reply"
    /\ \E p \in ReplyTo(wreq) :
         /\ pc[p] = "wait"
         /\ IF op[p] = "Add" /\ wloc.err = "nil"
            THEN Goto(p, "add_copy", loc[p])
            ELSE Return(p, [err |-> wloc.err, fsvc |-> Nil, objects |-> wloc.out,
                            deleted |-> FALSE])
         /\ hist' = [hist EXCEPT ![p] =
                        IF op[p] # "TouchByAddress" THEN @
                        ELSE IF wloc.err = "nil" THEN [@ EXCEPT !.m = wloc.m] ELSE NoHist]
    /\ wpc' = "recv"
    /\ wreq' = NoReq
    /\ wloc' = NoWloc
    /\ UNCHANGED <<now, cacheVars, op, arg, outerVars>>

\* ------------------------------------------------------------- the clock
Tick ==
    /\ now < MaxTime
    /\ now' = now + 1
    /\ UNCHANGED <<cacheVars, workerVars, procVars, outerVars>>

\* ================================================ the Container executor
\* a fv1.Function: its metadata, its executor type, and of its spec the MinScale
\* of the execution strategy and the IdleTimeout (NilInt: unset)
Fn(u, r, e, mn, idle) ==
    [meta |-> Meta(u, r), exec |-> e, minScale |-> mn, idleTimeout |-> idle,
     maxScale |-> 2, metrics |-> "m1", behavior |-> "b1", specializationTimeout |-> 1,
     secrets |-> <<>>, configMaps |-> <<>>, podSpec |-> "pod1"]
\* the rest of the spec, as far as updateFunction looks at it: MaxScale, Metrics
\* and Behavior of the execution strategy, another field of the invoke strategy,
\* the secrets, the config maps and the pod spec
\* the autoscaler CreateOrGetHpa makes for fn
HpaOf(fn) ==
    [uid |-> fn.meta.uid, minReplicas |-> fn.minScale, maxReplicas |-> fn.maxScale,
     metrics |-> fn.metrics, behavior |-> fn.behavior]
\* getDeploymentSpec(fn, replicas): the pod template follows the function
TemplateOf(fn) ==
    [secrets |-> fn.secrets, configMaps |-> fn.configMaps, podSpec |-> fn.podSpec]
getDeploymentSpec(fn, replicas) ==
    [uid |-> fn.meta.uid, replicas |-> replicas, template |-> TemplateOf(fn)]

NoEloc == [first |-> FALSE, got |-> Nil, todo |-> {}, ptr |-> NilPtr, fn |-> Nil]
\* (*fscache.FuncSvc, error), or the error alone
Result(f, e) == [fsvc |-> f, err |-> e]
\* failed: the create-or-get calls that have failed so far
NoRlog == [pass |-> 0, snap |-> <<>>, evals |-> {}, calls |-> <<>>, done |-> {},
           failed |-> 0]

InitOuter ==
    /\ eop = [p \in Procs |-> "none"]
    /\ earg = [p \in Procs |-> Nil]
    /\ eloc = [p \in Procs |-> NoEloc]
    /\ eret = [p \in Procs |-> Nil]
    /\ locks = <<>>
    /\ functions = <<>>
    /\ services = <<>>
    /\ deployments = <<>>
    /\ hpas = <<>>
    /\ tasks = {}
    /\ rlog = NoRlog

\* the goroutine p calls Container method o with argument a
ECall(p, o, a) ==
    /\ epc[p] = "idle"
    /\ eop' = [eop EXCEPT ![p] = o]
    /\ earg' = [earg EXCEPT ![p] = a]
EAt(p, at) ==
    /\ epc[p] = at
    /\ UNCHANGED <<eop, earg>>
EGoto(p, next, l) ==
    /\ epc' = [epc EXCEPT ![p] = next]
    /\ eloc' = [eloc EXCEPT ![p] = l]
    /\ eret' = [eret EXCEPT ![p] = Nil]
EReturn(p, r) ==
    /\ epc' = [epc EXCEPT ![p] = "idle"]
    /\ eloc' = [eloc EXCEPT ![p] = NoEloc]
    /\ eret' = [eret EXCEPT ![p] = r]
\* the fsCache method p called has returned
Returned(p) == pc[p] = "idle" /\ ret[p] # Nil
\* the Container method takes the return value: the frame of the fsCache call is gone
Consume(p) ==
    /\ op' = [op EXCEPT ![p] = "none"]
    /\ arg' = [arg EXCEPT ![p] = Nil]
    /\ ret' = [ret EXCEPT ![p] = Nil]
    /\ hist' = [hist EXCEPT ![p] = NoHist]
    /\ UNCHANGED <<pc, loc>>

\* ---- the cluster API: create-or-get by name, idempotent
CreateOrGet(objs, name, obj) == IF name \in DOMAIN objs THEN objs ELSE (name :> obj) @@ objs
\* the objects carry the label FUNCTION_UID (getDeployLabels)
LabelledWith(objs, uid) == {n \in DOMAIN objs : objs[n].uid = uid}

\* ---- throttler.RunOnce(key, callback): the first caller for the key runs
\* callback(true); callers that arrive while it runs block until it completes and
\* receive its (value, error); callers that arrive after it completed run
\* callback(false) themselves; once the lock is gone, the next call is a first one
\* createFunction's callback: if ableToCreate { fnCreate } else { GetByFunctionUID }
CallbackCreatesMut(ableToCreate) == FALSE
CallbackCreates(ableToCreate) == ableToCreate
CallbackPc(ableToCreate) == IF CallbackCreates(ableToCreate) THEN "fn_svc" ELSE "cb_get"

RunOnce(p, key) ==
    IF key \notin DOMAIN locks
    THEN /\ locks' = (key :> "running") @@ locks
         /\ EGoto(p, CallbackPc(TRUE), [NoEloc EXCEPT !.first = TRUE])
    ELSE /\ UNCHANGED locks
         /\ IF locks[key] = "running"
            THEN EGoto(p, "thr_wait", NoEloc)
            ELSE EGoto(p, CallbackPc(FALSE), NoEloc)

\* what createFunction makes of the (value, error) of RunOnce
createFunction_Result(r) == IF r.err # "nil" THEN Result(Nil, r.err) ELSE Result(r.fsvc, "nil")

\* the callback of p returned r: the first caller completes the lock and hands r
\* to the callers blocked on it; the lock of a failed attempt is dropped, so that
\* the next call starts afresh
RunOnce_Done(p, key, r) ==
    /\ epc' = [epc EXCEPT ![p] = "idle"]
    /\ eret' = [eret EXCEPT ![p] = createFunction_Result(r)]
    /\ IF eloc[p].first
       THEN /\ locks' = IF r.err # "nil"
                        THEN [k \in DOMAIN locks \ {key} |-> locks[k]]
                        ELSE [locks EXCEPT ![key] = "done"]
            /\ eloc' = [q \in Procs |->
                          IF q = p THEN NoEloc
                          ELSE IF epc[q] = "thr_wait" /\ earg[q].meta.uid = key
                               THEN [eloc[q] EXCEPT !.got = r]
                               ELSE eloc[q]]
       ELSE /\ UNCHANGED locks
            /\ eloc' = [eloc EXCEPT ![p] = NoEloc]

\* a blocked caller receives the (value, error) of the first one
RunOnce_Receive(p) ==
    /\ EAt(p, "thr_wait")
    /\ eloc[p].got # Nil
    /\ EReturn(p, createFunction_Result(eloc[p].got))
    /\ UNCHANGED <<now, cacheVars, workerVars, procVars, locks, clusterVars, tasks, rlog>>

\* the throttler forgets a completed lock
Throttler_Delete(key) ==
    /\ key \in DOMAIN locks
    /\ locks[key] = "done"
    /\ locks' = [k \in DOMAIN locks \ {key} |-> locks[k]]
    /\ UNCHANGED <<now, cacheVars, workerVars, procVars, execVars, clusterVars, tasks, rlog>>

\* ---- createFunction(fn): a function of another executor type is none of its
\* business; otherwise throttler.RunOnce(string(fn.UID), callback)
createFunctionMut(p, fn) ==
    /\ RunOnce(p, fn.meta.uid)
    /\ UNCHANGED <<now, cacheVars, workerVars, procVars, clusterVars, tasks, rlog>>
createFunction(p, fn) ==
    /\ IF fn.exec # ExecutorTypeContainer
       THEN /\ EReturn(p, Result(Nil, "nil"))
            /\ UNCHANGED locks
       ELSE RunOnce(p, fn.meta.uid)
    /\ UNCHANGED <<now, cacheVars, workerVars, procVars, clusterVars, tasks, rlog>>

\* GetFuncSvc(fn) is createFunction(fn)
GetFuncSvc(p, fn) ==
    /\ ECall(p, "GetFuncSvc", fn)
    /\ createFunction(p, fn)

\* callback(false): fsCache.GetByFunctionUID(fn.UID)
createFunction_Lookup(p) ==
    /\ EAt(p, "cb_get")
    /\ GetByFunctionUID(p, earg[p].meta.uid)
    /\ EGoto(p, "cb_lookup", eloc[p])
    /\ UNCHANGED <<locks, clusterVars, tasks, rlog>>

createFunction_LookupReturn(p) ==
    /\ EAt(p, "cb_lookup")
    /\ Returned(p)
    /\ RunOnce_Done(p, earg[p].meta.uid, Result(ret[p].fsvc, ret[p].err))
    /\ Consume(p)
    /\ UNCHANGED <<now, cacheVars, workerVars, clusterVars, tasks, rlog>>

\* ---- fnCreate(fn), with a cluster that answers every call: createOrGetSvc(objName)
fnCreate_Svc(p) ==
    /\ EAt(p, "fn_svc")
    /\ services' = CreateOrGet(services, ObjNameOf(earg[p].meta), [uid |-> earg[p].meta.uid])
    /\ EGoto(p, "fn_depl", eloc[p])
    /\ UNCHANGED <<now, cacheVars, workerVars, procVars, locks, functions, deployments,
                   hpas, tasks, rlog>>

\* createOrGetDeployment(objName): a new deployment starts with MinScale replicas
fnCreate_DeplMut(p) ==
    /\ EAt(p, "fn_depl")
    /\ deployments' = CreateOrGet(deployments, ObjNameOf(earg[p].meta),
                                  getDeploymentSpec(earg[p], earg[p].minScale))
    /\ EGoto(p, "fn_add", eloc[p])
    /\ UNCHANGED <<now, cacheVars, workerVars, procVars, locks, functions, services,
                   hpas, tasks, rlog>>
fnCreate_Depl(p) ==
    /\ EAt(p, "fn_depl")
    /\ deployments' = CreateOrGet(deployments, ObjNameOf(earg[p].meta),
                                  getDeploymentSpec(earg[p], earg[p].minScale))
    /\ EGoto(p, "fn_hpa", eloc[p])
    /\ UNCHANGED <<now, cacheVars, workerVars, procVars, locks, functions, services,
                   hpas, tasks, rlog>>

\* hpaops.CreateOrGetHpa(objName)
fnCreate_Hpa(p) ==
    /\ EAt(p, "fn_hpa")
    /\ hpas' = CreateOrGet(hpas, ObjNameOf(earg[p].meta), HpaOf(earg[p]))
    /\ EGoto(p, "fn_add", eloc[p])
    /\ UNCHANGED <<now, cacheVars, workerVars, procVars, locks, functions, services,
                   deployments, tasks, rlog>>

\* fsvc := &FuncSvc{...}; fsCache.Add(*fsvc)
fnCreate_Add(p) ==
    /\ EAt(p, "fn_add")
    /\ Add(p, NewFuncSvc(earg[p].meta))
    /\ EGoto(p, "fn_added", eloc[p])
    /\ UNCHANGED <<locks, clusterVars, tasks, rlog>>

\* Add returned: fnCreate returns (fsvc, err), fsvc being the one it built; what
\* comes next depends on who called fnCreate
fnCreate_Return(p) ==
    /\ EAt(p, "fn_added")
    /\ Returned(p)
    /\ LET r == Result(NewFuncSvc(earg[p].meta), ret[p].err) IN
       IF eop[p] = "AdoptExistingResources"
       THEN /\ EReturn(p, r)
            /\ UNCHANGED locks
       ELSE RunOnce_Done(p, earg[p].meta.uid, r)
    /\ Consume(p)
    /\ UNCHANGED <<now, cacheVars, workerVars, clusterVars, tasks, rlog>>

\* ---- fnCreate(fn) with a cluster call that fails: go cleanupFunc(ns, objName)
\* and return nil, fmt.Errorf(...); the goroutine started is a task of its own
\* (at: the call of fnCreate that failed)
CleanupFunc(p) == [pc |-> "cleanup", name |-> ObjNameOf(earg[p].meta), at |-> epc[p]]

fnCreate_FailMut(p, at) ==
    /\ EAt(p, at)
    /\ UNCHANGED tasks
    /\ rlog' = [rlog EXCEPT !.failed = @ + 1]
    /\ IF eop[p] = "AdoptExistingResources"
       THEN /\ EReturn(p, Result(Nil, "error"))
            /\ UNCHANGED locks
       ELSE RunOnce_Done(p, earg[p].meta.uid, Result(Nil, "error"))
    /\ UNCHANGED <<now, cacheVars, workerVars, procVars, clusterVars>>
fnCreate_Fail(p, at) ==
    /\ EAt(p, at)
    /\ tasks' = tasks \cup {CleanupFunc(p)}
    /\ rlog' = [rlog EXCEPT !.failed = @ + 1]
    /\ IF eop[p] = "AdoptExistingResources"
       THEN /\ EReturn(p, Result(Nil, "error"))
            /\ UNCHANGED locks
       ELSE RunOnce_Done(p, earg[p].meta.uid, Result(Nil, "error"))
    /\ UNCHANGED <<now, cacheVars, workerVars, procVars, clusterVars>>

\* createOrGetSvc, createOrGetDeployment, CreateOrGetHpa returned an error
fnCreate_SvcFails(p) == fnCreate_Fail(p, "fn_svc")
fnCreate_DeplFails(p) == fnCreate_Fail(p, "fn_depl")
fnCreate_HpaFails(p) == fnCreate_Fail(p, "fn_hpa")

\* cleanupContainer(ns, name): deletes the service, the deployment and the
\* autoscaler of that name
Without(objs, name) == [n \in DOMAIN objs \ {name} |-> objs[n]]
cleanupContainer(t) ==
    /\ t.pc = "cleanup"
    /\ services' = Without(services, t.name)
    /\ deployments' = Without(deployments, t.name)
    /\ hpas' = Without(hpas, t.name)
    /\ tasks' = tasks \ {t}
    /\ UNCHANGED <<now, cacheVars, workerVars, procVars, execVars, locks, functions, rlog>>

\* the creation routine is running on p
InFnCreate(p) == epc[p] \in {"fn_svc", "fn_depl", "fn_hpa", "fn_add", "fn_added"}

\* ---- AdoptExistingResources: for each Container function listed, a goroutine
\* that calls fnCreate(fn) itself; p is one of these goroutines
AdoptExistingResources(p, fn) ==
    /\ ECall(p, "AdoptExistingResources", fn)
    /\ fn.exec = ExecutorTypeContainer
    /\ EGoto(p, "fn_svc", NoEloc)
    /\ UNCHANGED <<now, cacheVars, workerVars, procVars, locks, clusterVars, tasks, rlog>>

\* ---- AdoptExistingResources, the caller's goroutine: for each namespace of
\* FissionResourceNS (in the order of the range) it lists the functions; a List
\* that fails makes it return; for each Container function listed it starts a
\* goroutine; after the last namespace it waits for the goroutines started
FissionResourceNS == {"ns1", "ns2"}
\* the namespace a function lives in (fn.ObjectMeta.Namespace)
NamespaceOf(fn) == IF fn.meta.uid = "u1" THEN "ns1" ELSE "ns2"
\* the goroutine started for a function
GoroutineOf(fn) == IF fn.meta.uid = "u1" THEN "p1" ELSE "p2"
\* (done: the namespaces listed; failed: those whose List failed)
Adopter(todo, done, failed, at) ==
    [pc |-> at, todo |-> todo, done |-> done, failed |-> failed]

adopt_Start ==
    /\ tasks = {}
    /\ \A p \in Procs : eop[p] = "none"
    /\ tasks' = {Adopter(FissionResourceNS, {}, {}, "adopt_list")}
    /\ UNCHANGED <<now, cacheVars, workerVars, procVars, execVars, locks, clusterVars, rlog>>

\* Functions(namespace).List succeeded: wg.Add(1); go func() {...}() for each
\* Container function of the namespace
adopt_List(t) ==
    /\ t.pc = "adopt_list"
    /\ \E ns \in t.todo :
          tasks' = (tasks \ {t})
                     \cup {Adopter(t.todo \ {ns}, t.done \cup {ns}, t.failed,
                                  IF t.todo = {ns} THEN "adopt_wait" ELSE "adopt_list")}
                     \cup {[pc |-> "adopt_fn", fn |-> functions[u]] :
                              u \in {x \in DOMAIN functions :
                                       /\ NamespaceOf(functions[x]) = ns
                                       /\ functions[x].exec = ExecutorTypeContainer}}
    /\ UNCHANGED <<now, cacheVars, workerVars, procVars, execVars, locks, clusterVars, rlog>>

\* Functions(namespace).List failed: the error is logged, and: return
adopt_ListFails(t) ==
    /\ t.pc = "adopt_list"
    /\ \E ns \in t.todo :
          tasks' = (tasks \ {t})
                     \cup {Adopter(t.todo \ {ns}, t.done, t.failed \cup {ns}, "adopt_returned")}
    /\ rlog' = [rlog EXCEPT !.failed = @ + 1]
    /\ UNCHANGED <<now, cacheVars, workerVars, procVars, execVars, locks, clusterVars>>

\* the goroutine started for fn begins: _, err = caaf.fnCreate(ctx, fn)
adopt_Go(t) ==
    /\ t.pc = "adopt_fn"
    /\ ECall(GoroutineOf(t.fn), "AdoptExistingResources", t.fn)
    /\ EGoto(GoroutineOf(t.fn), "fn_svc", NoEloc)
    /\ tasks' = tasks \ {t}
    /\ UNCHANGED <<now, cacheVars, workerVars, procVars, locks, clusterVars, rlog>>

\* wg.Wait(): every goroutine started has returned
adopt_Wait(t) ==
    /\ t.pc = "adopt_wait"
    /\ \A x \in tasks : x.pc # "adopt_fn"
    /\ \A p \in Procs : epc[p] = "idle"
    /\ tasks' = (tasks \ {t}) \cup {[t EXCEPT !.pc = "adopt_done"]}
    /\ UNCHANGED <<now, cacheVars, workerVars, procVars, execVars, locks, clusterVars, rlog>>

\* ---- GetFuncSvcFromCache(fn): fsCache.GetByFunctionUID(fn.UID)
GetFuncSvcFromCache(p, fn) ==
    /\ ECall(p, "GetFuncSvcFromCache", fn)
    /\ GetByFunctionUID(p, fn.meta.uid)
    /\ EGoto(p, "gfc", NoEloc)
    /\ UNCHANGED <<locks, clusterVars, tasks, rlog>>

GetFuncSvcFromCache_Return(p) ==
    /\ EAt(p, "gfc")
    /\ Returned(p)
    /\ EReturn(p, Result(ret[p].fsvc, ret[p].err))
    /\ Consume(p)
    /\ UNCHANGED <<now, cacheVars, workerVars, locks, clusterVars, tasks, rlog>>

\* ---- DeleteFuncSvcFromCache(fsvc): fsCache.DeleteEntry(fsvc)
DeleteFuncSvcFromCache(p, fsvc) ==
    /\ ECall(p, "DeleteFuncSvcFromCache", fsvc)
    /\ DeleteEntry(p, fsvc)
    /\ EGoto(p, "dfc", NoEloc)
    /\ UNCHANGED <<locks, clusterVars, tasks, rlog>>

DeleteFuncSvcFromCache_Return(p) ==
    /\ EAt(p, "dfc")
    /\ Returned(p)
    /\ EReturn(p, Result(Nil, "nil"))
    /\ Consume(p)
    /\ UNCHANGED <<now, cacheVars, workerVars, locks, clusterVars, tasks, rlog>>

\* ---- fnDelete(fn): fsCache.GetByFunctionUID(fn.UID) first
fnDelete(p, fn) ==
    /\ GetByFunctionUID(p, fn.meta.uid)
    /\ EGoto(p, "del_get", [NoEloc EXCEPT !.fn = fn])

\* deleteFunction(fn): a function of another executor type is none of its business
deleteFunction(p, fn) ==
    /\ IF fn.exec # ExecutorTypeContainer
       THEN /\ EReturn(p, Result(Nil, "nil"))
            /\ UNCHANGED <<now, cacheVars, workerVars, procVars>>
       ELSE fnDelete(p, fn)
    /\ UNCHANGED <<locks, clusterVars, tasks, rlog>>

\* the function informer's delete handler calls deleteFunction(fn)
CallDeleteFunction(p, fn) ==
    /\ ECall(p, "deleteFunction", fn)
    /\ deleteFunction(p, fn)

\* no entry: return fmt.Errorf("fsvc not found in cache ..."); otherwise
\* objName := fsvc.Name and fsCache.DeleteOld(fsvc, 0)
fnDelete_Lookup(p) ==
    /\ EAt(p, "del_get")
    /\ Returned(p)
    /\ IF ret[p].err # "nil"
       THEN /\ EReturn(p, Result(Nil, ret[p].err))
            /\ Consume(p)
            /\ UNCHANGED <<now, cacheVars, workerVars>>
       ELSE /\ DeleteOld(p, ret[p].fsvc, 0)
            /\ EGoto(p, "del_old", [eloc[p] EXCEPT !.got = ret[p].fsvc])
    /\ UNCHANGED <<locks, clusterVars, tasks, rlog>>

\* cleanupContainer(ns, objName) on the caller's goroutine: the objects of the
\* kinds in deleted go; the others stay when their deletion failed, and the
\* error returned says so
Kinds == {"service", "deployment", "horizontalpodautoscaler"}
fnDelete_CleanupOf(p, deleted) ==
    /\ EAt(p, "del_old")
    /\ Returned(p)
    /\ LET name == eloc[p].got.name IN
       /\ services' = IF "service" \in deleted THEN Without(services, name) ELSE services
       /\ deployments' = IF "deployment" \in deleted THEN Without(deployments, name)
                         ELSE deployments
       /\ hpas' = IF "horizontalpodautoscaler" \in deleted THEN Without(hpas, name) ELSE hpas
    /\ rlog' = IF deleted = Kinds THEN rlog ELSE [rlog EXCEPT !.failed = @ + 1]
    /\ EReturn(p, Result(Nil, IF deleted = Kinds THEN "nil" ELSE "error"))
    /\ Consume(p)
    /\ UNCHANGED <<now, cacheVars, workerVars, locks, functions, tasks>>

fnDelete_Cleanup(p) == fnDelete_CleanupOf(p, Kinds)
fnDelete_CleanupFails(p) == \E deleted \in (SUBSET Kinds) \ {Kinds} : fnDelete_CleanupOf(p, deleted)

\* ---- updateFunction(oldFn, newFn)
InvokeStrategy(fn) ==
    [exec |-> fn.exec, minScale |-> fn.minScale, maxScale |-> fn.maxScale,
     metrics |-> fn.metrics, behavior |-> fn.behavior,
     specializationTimeout |-> fn.specializationTimeout]
\* hpaChanged: MinScale, MaxScale, Metrics or Behavior differs
HpaChangedMut(oldFn, newFn) ==
    \/ newFn.minScale # oldFn.minScale
    \/ newFn.maxScale # oldFn.maxScale
    \/ newFn.metrics # oldFn.metrics
HpaChanged(oldFn, newFn) ==
    \/ newFn.minScale # oldFn.minScale
    \/ newFn.maxScale # oldFn.maxScale
    \/ newFn.metrics # oldFn.metrics
    \/ newFn.behavior # oldFn.behavior
\* the autoscaler read, with the fields that differ set from newFn
SetHpa(hpa, oldFn, newFn) ==
    [hpa EXCEPT
       !.minReplicas = IF newFn.minScale # oldFn.minScale THEN newFn.minScale ELSE @,
       !.maxReplicas = IF newFn.maxScale # oldFn.maxScale THEN newFn.maxScale ELSE @,
       !.metrics = IF newFn.metrics # oldFn.metrics THEN newFn.metrics ELSE @,
       !.behavior = IF newFn.behavior # oldFn.behavior THEN newFn.behavior ELSE @]
\* a slice differs when the length or an element does
SliceChanged(old, new) ==
    \/ Len(old) # Len(new)
    \/ \E i \in 1..Len(new) : new[i] # old[i]
\* deployChanged: the secrets, the config maps or the pod spec differ
DeployChanged(oldFn, newFn) ==
    \/ SliceChanged(oldFn.secrets, newFn.secrets)
    \/ SliceChanged(oldFn.configMaps, newFn.configMaps)
    \/ oldFn.podSpec # newFn.podSpec
\* the record the delete path is run with
DeletedRecordMut(oldFn, newFn) == newFn
DeletedRecord(oldFn, newFn) == oldFn

\* nothing to do for an unchanged resource version or when neither is a
\* Container function; a function that no longer is one is deleted, one that
\* became one is created; otherwise the autoscaler and the deployment follow
updateFunction(p, oldFn, newFn) ==
    /\ ECall(p, "updateFunction", newFn)
    /\ IF \/ oldFn.meta.rv = newFn.meta.rv
          \/ (newFn.exec # ExecutorTypeContainer /\ oldFn.exec # ExecutorTypeContainer)
       THEN /\ EReturn(p, Result(Nil, "nil"))
            /\ UNCHANGED <<now, cacheVars, workerVars, procVars, locks, clusterVars,
                           tasks, rlog>>
       ELSE IF newFn.exec # ExecutorTypeContainer /\ oldFn.exec = ExecutorTypeContainer
       THEN deleteFunction(p, DeletedRecord(oldFn, newFn))
       ELSE IF oldFn.exec # ExecutorTypeContainer /\ newFn.exec = ExecutorTypeContainer
       THEN createFunction(p, newFn)
       ELSE /\ IF InvokeStrategy(oldFn) # InvokeStrategy(newFn)
               THEN /\ GetByFunctionUID(p, newFn.meta.uid)
                    /\ EGoto(p, "upd_get", [NoEloc EXCEPT !.fn = oldFn])
               ELSE /\ EGoto(p, "upd_deploy", [NoEloc EXCEPT !.fn = oldFn])
                    /\ UNCHANGED <<now, cacheVars, workerVars, procVars>>
            /\ UNCHANGED <<locks, clusterVars, tasks, rlog>>

\* a call of the cluster API by updateFunction failed: return err
updateFunction_Fail(p, at) ==
    /\ EAt(p, at)
    /\ at \in {"upd_get", "upd_dget"} => Returned(p) /\ ret[p].err = "nil"
    /\ rlog' = [rlog EXCEPT !.failed = @ + 1]
    /\ EReturn(p, Result(Nil, "error"))
    /\ Consume(p)
    /\ UNCHANGED <<now, cacheVars, workerVars, locks, clusterVars, tasks>>

\* GetByFunctionUID returned: without an entry return the error; otherwise
\* hpaops.GetHpa(ns, fsvc.Name), and the fields that differ are set
updateFunction_GetHpa(p) ==
    /\ EAt(p, "upd_get")
    /\ Returned(p)
    /\ IF ret[p].err # "nil" THEN EReturn(p, Result(Nil, ret[p].err))
       ELSE IF ret[p].fsvc.name \notin DOMAIN hpas THEN EReturn(p, Result(Nil, "NotFound"))
       ELSE LET hpa == hpas[ret[p].fsvc.name] IN
            IF HpaChanged(eloc[p].fn, earg[p])
            THEN EGoto(p, "upd_hpa", [eloc[p] EXCEPT !.got =
                          [name |-> ret[p].fsvc.name, obj |-> SetHpa(hpa, eloc[p].fn, earg[p])]])
            ELSE EGoto(p, "upd_deploy", eloc[p])
    /\ Consume(p)
    /\ UNCHANGED <<now, cacheVars, workerVars, locks, clusterVars, tasks, rlog>>
updateFunction_GetHpaFails(p) == updateFunction_Fail(p, "upd_get")

\* hpaops.UpdateHpa(hpa): the autoscaler becomes the object passed
updateFunction_UpdateHpa(p) ==
    /\ EAt(p, "upd_hpa")
    /\ LET name == eloc[p].got.name IN
       IF name \notin DOMAIN hpas
       THEN /\ EReturn(p, Result(Nil, "NotFound"))
            /\ UNCHANGED hpas
       ELSE /\ hpas' = [hpas EXCEPT ![name] = eloc[p].got.obj]
            /\ EGoto(p, "upd_deploy", [eloc[p] EXCEPT !.got = Nil])
    /\ UNCHANGED <<now, cacheVars, workerVars, procVars, locks, functions, services,
                   deployments, tasks, rlog>>
updateFunction_UpdateHpaFails(p) == updateFunction_Fail(p, "upd_hpa")

\* if deployChanged { return updateFuncDeployment(newFn) }; return nil
\* updateFuncDeployment starts with fsCache.GetByFunctionUID(fn.UID)
updateFunction_Deploy(p) ==
    /\ EAt(p, "upd_deploy")
    /\ IF DeployChanged(eloc[p].fn, earg[p])
       THEN /\ GetByFunctionUID(p, earg[p].meta.uid)
            /\ EGoto(p, "upd_dget", eloc[p])
       ELSE /\ EReturn(p, Result(Nil, "nil"))
            /\ UNCHANGED <<now, cacheVars, workerVars, procVars>>
    /\ UNCHANGED <<locks, clusterVars, tasks, rlog>>

\* the replicas of the deployment updateFuncDeployment builds: those of the
\* deployment it read
ReplicasMut(fn, existingDepl) == fn.minScale
Replicas(fn, existingDepl) == existingDepl.replicas

\* Deployments(ns).Get(fnObjName), then getDeploymentSpec(fn, existingDepl.Spec.Replicas)
updateFuncDeployment_Get(p) ==
    /\ EAt(p, "upd_dget")
    /\ Returned(p)
    /\ IF ret[p].err # "nil" THEN EReturn(p, Result(Nil, ret[p].err))
       ELSE IF ret[p].fsvc.name \notin DOMAIN deployments
       THEN EReturn(p, Result(Nil, "NotFound"))
       ELSE LET existingDepl == deployments[ret[p].fsvc.name] IN
            EGoto(p, "upd_depl", [eloc[p] EXCEPT !.got =
                     [name |-> ret[p].fsvc.name,
                      obj |-> getDeploymentSpec(earg[p], Replicas(earg[p], existingDepl))]])
    /\ Consume(p)
    /\ UNCHANGED <<now, cacheVars, workerVars, locks, clusterVars, tasks, rlog>>
updateFuncDeployment_GetFails(p) == updateFunction_Fail(p, "upd_dget")

\* updateDeployment(newDeployment, ns)
updateFuncDeployment_Update(p) ==
    /\ EAt(p, "upd_depl")
    /\ LET name == eloc[p].got.name IN
       IF name \notin DOMAIN deployments
       THEN UNCHANGED deployments /\ EReturn(p, Result(Nil, "NotFound"))
       ELSE /\ deployments' = [deployments EXCEPT ![name] = eloc[p].got.obj]
            /\ EReturn(p, Result(Nil, "nil"))
    /\ UNCHANGED <<now, cacheVars, workerVars, procVars, locks, functions, services,
                   hpas, tasks, rlog>>
updateFuncDeployment_UpdateFails(p) == updateFunction_Fail(p, "upd_depl")

\* ---- IsValid(fsvc)
\* an address is the sequence of its dot-separated parts, the empty string the
\* empty sequence; strings.Split(s, ".") of the empty string is [""]
EmptyAddress == <<>>
Split(address) == IF address = EmptyAddress THEN <<"">> ELSE address
\* the bool returned
Verdict(b) == [fsvc |-> Nil, err |-> "nil", valid |-> b]

\* the tests of the address and of the number of references
IsValid(p, fsvc) ==
    /\ ECall(p, "IsValid", fsvc)
    /\ IF Len(Split(fsvc.addr)) = 0 \/ Len(fsvc.kobjs) = 0
       THEN EReturn(p, Verdict(FALSE))
       ELSE EGoto(p, "valid", [NoEloc EXCEPT !.ptr = 1])
    /\ UNCHANGED <<now, cacheVars, workerVars, procVars, locks, clusterVars, tasks, rlog>>

\* what the listers say of the reference obj: a service must be there, a
\* deployment must be there with an available replica; no other kind is looked at
RefValid(obj, name) ==
    IF obj = "service" THEN name \in DOMAIN services
    ELSE IF obj = "deployment"
         THEN name \in DOMAIN deployments /\ deployments[name].available >= 1
         ELSE TRUE

\* one turn of for _, obj := range fsvc.KubernetesObjects
IsValid_Check(p) ==
    /\ EAt(p, "valid")
    /\ LET fsvc == earg[p]
           i == eloc[p].ptr
       IN IF ~RefValid(fsvc.kobjs[i], fsvc.name) THEN EReturn(p, Verdict(FALSE))
          ELSE IF i = Len(fsvc.kobjs) THEN EReturn(p, Verdict(TRUE))
          ELSE EGoto(p, "valid", [eloc[p] EXCEPT !.ptr = i + 1])
    /\ UNCHANGED <<now, cacheVars, workerVars, procVars, locks, clusterVars, tasks, rlog>>

\* ---- TapService(svcHost): fsCache.TouchByAddress(svcHost), on a goroutine of
\* the router's request
TapService(p, svcHost) ==
    /\ ECall(p, "TapService", svcHost)
    /\ TouchByAddress(p, svcHost)
    /\ EGoto(p, "tap", NoEloc)
    /\ UNCHANGED <<locks, clusterVars, tasks, rlog>>

\* return err
TapService_Return(p) ==
    /\ EAt(p, "tap")
    /\ Returned(p)
    /\ EReturn(p, Result(Nil, ret[p].err))
    /\ Consume(p)
    /\ UNCHANGED <<now, cacheVars, workerVars, locks, clusterVars, tasks, rlog>>

\* ---- the idle reaper
\* ListOld(time.Second * 5)
ListOldAge == 5
\* defaultIdlePodReapTime: 1 * time.Minute, in seconds
defaultIdlePodReapTime == 60
\* idlePodReapTime: fn.Spec.IdleTimeout seconds if set, the default otherwise
IdlePodReapTime(fn) ==
    IF fn.idleTimeout # NilInt THEN fn.idleTimeout ELSE defaultIdlePodReapTime
\* if time.Since(fsvc.Atime) < idlePodReapTime { continue }
TooRecent(idle, fn) == idle < IdlePodReapTime(fn)
\* if *currentDeploy.Spec.Replicas <= minScale { return }
AlreadyLowMut(replicas, minScale) == replicas < minScale
AlreadyLow(replicas, minScale) == replicas <= minScale
\* getDeploymentObj: the first reference of kind deployment (nil if there is none);
\* its Name is the object name of the FuncSvc
getDeploymentObj(fsvc) ==
    IF \E i \in DOMAIN fsvc.kobjs : fsvc.kobjs[i] = "deployment" THEN fsvc.name ELSE Nil
\* scaleDeployment(ns, name, replicas): the deployment's replicas are set
ScaleDeployment(objs, name, replicas) ==
    IF name \in DOMAIN objs THEN [objs EXCEPT ![name].replicas = replicas] ELSE objs

\* what GetByFunctionUID(uid) resolves to
Resolves(uid) ==
    /\ CacheHas(byFunctionUID, uid)
    /\ CacheHas(byFunction, CacheKeyURFromMeta(byFunctionUID[uid]))
Resolved(uid) == heap[byFunction[CacheKeyURFromMeta(byFunctionUID[uid])]]

\* doIdleObjectReaper: one pass; it starts with fsCache.ListOld(5 s)
doIdleObjectReaper(p) ==
    /\ ECall(p, "doIdleObjectReaper", Nil)
    /\ rlog.pass < MaxPasses
    /\ ListOld(p, ListOldAge)
    /\ EGoto(p, "reap_list", NoEloc)
    /\ rlog' = [rlog EXCEPT
                  !.pass = @ + 1,
                  !.snap = [at |-> now, heap |-> heap, deployments |-> deployments,
                            byFunction |-> byFunction, byAddress |-> byAddress,
                            byFunctionUID |-> byFunctionUID]]
    /\ UNCHANGED <<locks, clusterVars, tasks>>

\* funcSvcs, err := ...: an error ends the pass
reaper_Listed(p) ==
    /\ EAt(p, "reap_list")
    /\ Returned(p)
    /\ IF ret[p].err # "nil"
       THEN EReturn(p, Result(Nil, ret[p].err))
       ELSE EGoto(p, "reap_loop", [NoEloc EXCEPT !.todo = ret[p].objects])
    /\ Consume(p)
    /\ UNCHANGED <<now, cacheVars, workerVars, locks, clusterVars, tasks, rlog>>

\* the next fsvc of the slice (the pointer to the live record): an entry of
\* another executor is skipped; Functions(ns).Get(name): a function that is gone
\* is skipped; after the last, the pass is over
reaper_GetFunctionMut(p) ==
    /\ EAt(p, "reap_loop")
    /\ IF eloc[p].todo = {}
       THEN EReturn(p, Result(Nil, "nil"))
       ELSE \E ptr \in eloc[p].todo :
              LET uid == heap[ptr].fn.uid
                  rest == eloc[p].todo \ {ptr}
              IN  IF uid \notin DOMAIN functions
                  THEN EGoto(p, "reap_loop", [eloc[p] EXCEPT !.todo = rest])
                  ELSE EGoto(p, "reap_check",
                             [eloc[p] EXCEPT !.todo = rest, !.ptr = ptr, !.fn = functions[uid]])
    /\ UNCHANGED <<now, cacheVars, workerVars, procVars, locks, clusterVars, tasks, rlog>>
reaper_GetFunction(p) ==
    /\ EAt(p, "reap_loop")
    /\ IF eloc[p].todo = {}
       THEN EReturn(p, Result(Nil, "nil"))
       ELSE \E ptr \in eloc[p].todo :
              LET uid == heap[ptr].fn.uid
                  rest == eloc[p].todo \ {ptr}
              IN  IF heap[ptr].exec # ExecutorTypeContainer \/ uid \notin DOMAIN functions
                  THEN EGoto(p, "reap_loop", [eloc[p] EXCEPT !.todo = rest])
                  ELSE EGoto(p, "reap_check",
                             [eloc[p] EXCEPT !.todo = rest, !.ptr = ptr, !.fn = functions[uid]])
    /\ UNCHANGED <<now, cacheVars, workerVars, procVars, locks, clusterVars, tasks, rlog>>

\* Functions(ns).Get(name) fails with an error other than NotFound: logged, continue
reaper_GetFunctionFails(p) ==
    /\ EAt(p, "reap_loop")
    /\ \E ptr \in eloc[p].todo :
          /\ heap[ptr].exec = ExecutorTypeContainer
          /\ EGoto(p, "reap_loop", [eloc[p] EXCEPT !.todo = @ \ {ptr}])
    /\ rlog' = [rlog EXCEPT !.failed = @ + 1]
    /\ UNCHANGED <<now, cacheVars, workerVars, procVars, locks, clusterVars, tasks>>

\* time.Since(fsvc.Atime), Atime read from the live record: too recent, the entry
\* is skipped; otherwise go func() {...}() starts its scale-down task
reaper_CheckIdle(p) ==
    /\ EAt(p, "reap_check")
    /\ LET ptr == eloc[p].ptr
           fn == eloc[p].fn
           idle == Since(heap[ptr].atime)
       IN  /\ tasks' = IF TooRecent(idle, fn) THEN tasks
                       ELSE tasks \cup {[pass |-> rlog.pass, ptr |-> ptr, fn |-> fn,
                                         pc |-> "get", replicas |-> NilInt]}
           /\ rlog' = [rlog EXCEPT !.evals = @ \cup
                          {[pass |-> rlog.pass, ptr |-> ptr, fn |-> fn, idle |-> idle]}]
    /\ EGoto(p, "reap_loop", [eloc[p] EXCEPT !.ptr = NilPtr, !.fn = Nil])
    /\ UNCHANGED <<now, cacheVars, workerVars, procVars, locks, clusterVars>>

\* the task t is over: what it read and whether it made the scale call
TaskDone(t, replicas) ==
    /\ tasks' = tasks \ {t}
    /\ rlog' = [rlog EXCEPT !.done = @ \cup
                   {[pass |-> t.pass, ptr |-> t.ptr, fn |-> t.fn, replicas |-> replicas]}]

\* the task: getDeploymentObj(fsvc.KubernetesObjects); Deployments(ns).Get(name);
\* no reference or no deployment: return; replicas <= minScale: return
task_GetDeployment(t) ==
    /\ t \in tasks
    /\ t.pc = "get"
    /\ LET name == getDeploymentObj(heap[t.ptr]) IN
       IF name = Nil \/ name \notin DOMAIN deployments
       THEN TaskDone(t, NilInt)
       ELSE IF AlreadyLow(deployments[name].replicas, t.fn.minScale)
            THEN TaskDone(t, deployments[name].replicas)
            ELSE /\ tasks' = (tasks \ {t}) \cup
                       {[t EXCEPT !.pc = "scale", !.replicas = deployments[name].replicas]}
                 /\ UNCHANGED rlog
    /\ UNCHANGED <<now, cacheVars, workerVars, procVars, execVars, locks, clusterVars>>

\* (a task that evicted the entry as well, as the pool manager's reaper does)
task_ScaleMut(t) ==
    /\ t \in tasks
    /\ t.pc = "scale"
    /\ deployments' = ScaleDeployment(deployments, getDeploymentObj(heap[t.ptr]), t.fn.minScale)
    /\ tasks' = tasks \ {t}
    /\ byFunctionUID' = CacheDelete(byFunctionUID, heap[t.ptr].fn.uid)
    /\ rlog' = [rlog EXCEPT
                  !.calls = Append(@, [pass |-> t.pass, ptr |-> t.ptr,
                                       name |-> getDeploymentObj(heap[t.ptr]),
                                       target |-> t.fn.minScale]),
                  !.done = @ \cup {[pass |-> t.pass, ptr |-> t.ptr, fn |-> t.fn,
                                    replicas |-> t.replicas]}]
    /\ UNCHANGED <<now, heap, byFunction, byAddress, pool, workerVars, procVars, execVars,
                   locks, functions, services, hpas>>
\* scaleDeployment(ns, deployObj.Name, minScale)
task_Scale(t) ==
    /\ t \in tasks
    /\ t.pc = "scale"
    /\ deployments' = ScaleDeployment(deployments, getDeploymentObj(heap[t.ptr]), t.fn.minScale)
    /\ tasks' = tasks \ {t}
    /\ rlog' = [rlog EXCEPT
                  !.calls = Append(@, [pass |-> t.pass, ptr |-> t.ptr,
                                       name |-> getDeploymentObj(heap[t.ptr]),
                                       target |-> t.fn.minScale]),
                  !.done = @ \cup {[pass |-> t.pass, ptr |-> t.ptr, fn |-> t.fn,
                                    replicas |-> t.replicas]}]
    /\ UNCHANGED <<now, cacheVars, workerVars, procVars, execVars, locks, functions,
                   services, hpas>>

\* scaleDeployment fails: the error is logged, the task ends
task_ScaleFails(t) ==
    /\ t \in tasks
    /\ t.pc = "scale"
    /\ TaskDone(t, t.replicas)
    /\ UNCHANGED <<now, cacheVars, workerVars, procVars, execVars, locks, clusterVars>>

\* ============================================== the fsCache on its own
\* goroutines p calling the exported methods of one FunctionServiceCache
\* (epc[p] = "none": no Container method is running on p)
Held(p) == IF ret[p] # Nil /\ ret[p].fsvc # Nil THEN {ret[p].fsvc} ELSE {}
\* the values of the records stored so far: what a caller may hold a copy of
Stored == {heap[i] : i \in 1..Len(heap)}
\* two revisions of one function: same UID and address, different by-function keys
CacheMetas == {Meta("u1", r) : r \in RVs}
CacheAddresses == {AddressOf(m) : m \in CacheMetas}

InitEmpty ==
    /\ now = 1
    /\ heap = <<>>
    /\ byFunction = <<>>
    /\ byAddress = <<>>
    /\ byFunctionUID = <<>>
    /\ pool = {}
    /\ wpc = "recv"
    /\ wreq = NoReq
    /\ wloc = NoWloc
    /\ pc = [p \in Procs |-> "idle"]
    /\ op = [p \in Procs |-> "none"]
    /\ arg = [p \in Procs |-> Nil]
    /\ loc = [p \in Procs |-> NoLoc]
    /\ ret = [p \in Procs |-> Nil]
    /\ hist = [p \in Procs |-> NoHist]
    /\ InitOuter

InitCache == InitEmpty /\ epc = [p \in Procs |-> "none"]

Direct(p) == epc[p] = "none" /\ UNCHANGED outerVars

CallAdd(p) == Direct(p) /\ \E m \in CacheMetas : Add(p, NewFuncSvc(m))
CallGetByFunction(p) == Direct(p) /\ \E m \in CacheMetas : GetByFunction(p, m)
CallGetByFunctionUID(p) == Direct(p) /\ \E m \in CacheMetas : GetByFunctionUID(p, m.uid)
CallTouchByAddress(p) == Direct(p) /\ \E a \in CacheAddresses : TouchByAddress(p, a)
CallListOld(p) == Direct(p) /\ \E age \in Ages : ListOld(p, age)
CallListOldForPool(p) == Direct(p) /\ \E age \in Ages : ListOldForPool(p, age)
CallLog(p) == Direct(p) /\ Log(p)
CallDeleteEntry(p) == Direct(p) /\ \E f \in Stored : DeleteEntry(p, f)
CallDeleteOld(p) == Direct(p) /\ \E f \in Held(p), minAge \in Ages : DeleteOld(p, f, minAge)

AddSteps(p) ==
    \/ Add_StoreCtime(p)
    \/ Add_StoreAtime(p)
    \/ Add_ByAddress(p)
    \/ Add_ByFunctionUID(p)
    \/ Add_CopyExisting(p)

GetSteps(p) ==
    \/ Get_StoreAtime(p)
    \/ Get_Copy(p)

DeleteSteps(p) ==
    \/ DeleteEntry_ByAddress(p)
    \/ DeleteEntry_ByFunctionUID(p)

TouchSteps ==
    \/ \E p \in Procs : service_Receive(p)
    \/ touchByAddress_GetAddress
    \/ touchByAddress_GetFunction
    \/ touchByAddress_StoreAtime
    \/ service_Reply

ListSteps ==
    \/ service_ListOldCopy
    \/ service_ListOldIter
    \/ service_Log
    \/ service_ListOldPool

\* ---- concurrent Add calls (and the touches their collisions make)
NextAdd ==
    \/ \E p \in Procs : CallAdd(p)
    \/ \E p \in Procs : AddSteps(p)
    \/ TouchSteps

SpecAdd == InitCache /\ [][NextAdd]_vars

\* ---- the queued operations against Add and DeleteEntry
NextQueue ==
    \/ \E p \in Procs : CallAdd(p)
    \/ \E p \in Procs : CallDeleteEntry(p)
    \/ \E p \in Procs : CallTouchByAddress(p)
    \/ \E p \in Procs : CallListOld(p)
    \/ \E p \in Procs : CallListOldForPool(p)
    \/ \E p \in Procs : CallLog(p)
    \/ \E p \in Procs : AddSteps(p)
    \/ \E p \in Procs : DeleteSteps(p)
    \/ TouchSteps
    \/ ListSteps

SpecQueue == InitCache /\ [][NextQueue]_vars

\* ---- lookups and touches of cached entries, with the clock running
NextAtime ==
    \/ \E p \in Procs : CallAdd(p)
    \/ \E p \in Procs : CallGetByFunction(p)
    \/ \E p \in Procs : CallGetByFunctionUID(p)
    \/ \E p \in Procs : CallTouchByAddress(p)
    \/ \E p \in Procs : AddSteps(p)
    \/ \E p \in Procs : GetByFunctionUID_Get(p)
    \/ \E p \in Procs : GetSteps(p)
    \/ TouchSteps
    \/ Tick

SpecAtime == InitCache /\ [][NextAtime]_vars

\* ---- DeleteOld on copies the callers got from lookups, with the clock running
NextDelete ==
    \/ \E p \in Procs : CallAdd(p)
    \/ \E p \in Procs : CallGetByFunctionUID(p)
    \/ \E p \in Procs : CallDeleteOld(p)
    \/ \E p \in Procs : AddSteps(p)
    \/ \E p \in Procs : GetByFunctionUID_Get(p)
    \/ \E p \in Procs : GetSteps(p)
    \/ \E p \in Procs : DeleteOld_ReturnFalse(p)
    \/ \E p \in Procs : DeleteSteps(p)
    \/ TouchSteps
    \/ Tick

SpecDelete == InitCache /\ [][NextDelete]_vars

\* ---- callers that write to the FuncSvc a lookup returned to them
\* the cached record the value held by p was copied from (nothing deletes here)
SourceOf(p) == CHOOSE i \in 1..Len(heap) : heap[i].fn = ret[p].fsvc.fn
HoldsCopy(p) ==
    /\ pc[p] = "idle" /\ op[p] \in {"GetByFunction", "GetByFunctionUID"}
    /\ ret[p] # Nil /\ ret[p].fsvc # Nil
\* fsvc.Address = "": Address is a field of the copy
WriteAddress(p) ==
    /\ HoldsCopy(p)
    /\ ret[p].fsvc.addr # EmptyAddress
    /\ ret' = [ret EXCEPT ![p].fsvc.addr = EmptyAddress]
    /\ UNCHANGED <<now, cacheVars, workerVars, pc, op, arg, loc, hist, outerVars>>
\* fsvc.KubernetesObjects[0] = apiv1.ObjectReference{}: fsvcCopy := *fsvc copies
\* the slice header, the elements are those of the cached record
WriteObjects(p) ==
    /\ HoldsCopy(p)
    /\ Len(ret[p].fsvc.kobjs) > 0 /\ ret[p].fsvc.kobjs[1] # ""
    /\ ret' = [ret EXCEPT ![p].fsvc.kobjs[1] = ""]
    /\ heap' = [heap EXCEPT ![SourceOf(p)].kobjs[1] = ""]
    /\ UNCHANGED <<now, byFunction, byAddress, byFunctionUID, pool, workerVars, pc, op,
                   arg, loc, hist, outerVars>>

NextCopy ==
    \/ \E p \in Procs : Direct(p) /\ Add(p, NewFuncSvc(Meta("u1", 1)))
    \/ \E p \in Procs : AddSteps(p)
    \/ \E p \in Procs : CallGetByFunction(p)
    \/ \E p \in Procs : CallGetByFunctionUID(p)
    \/ \E p \in Procs : GetByFunctionUID_Get(p)
    \/ \E p \in Procs : GetSteps(p)
    \/ \E p \in Procs : CallTouchByAddress(p)
    \/ TouchSteps
    \/ \E p \in Procs : WriteAddress(p)
    \/ \E p \in Procs : WriteObjects(p)

SpecCopy == InitCache /\ [][NextCopy]_vars

\* ---- one call after the other (any goroutine makes the next call once the last
\* one has returned), the clock moving between the calls
Quiet == \A q \in Procs : pc[q] = "idle"

NextList ==
    \/ \E p \in Procs : Quiet /\ CallAdd(p)
    \/ \E p \in Procs : Quiet /\ CallDeleteEntry(p)
    \/ \E p \in Procs : Quiet /\ CallListOld(p)
    \/ \E p \in Procs : Quiet /\ CallTouchByAddress(p)
    \/ \E p \in Procs : Quiet /\ CallGetByFunction(p)
    \/ \E p \in Procs : AddSteps(p)
    \/ \E p \in Procs : DeleteSteps(p)
    \/ \E p \in Procs : GetSteps(p)
    \/ TouchSteps
    \/ service_ListOldCopy
    \/ service_ListOldIter
    \/ Quiet /\ Tick

SpecList == InitCache /\ [][NextList]_vars

\* ---- Add and DeleteEntry of the revisions of two functions, one call after the
\* other; DeleteEntry is given a record that was stored at some time
NextEntry ==
    \/ \E p \in Procs, m \in Metas : Quiet /\ Direct(p) /\ Add(p, NewFuncSvc(m))
    \/ \E p \in Procs : Quiet /\ CallDeleteEntry(p)
    \/ \E p \in Procs : AddSteps(p)
    \/ \E p \in Procs : DeleteSteps(p)
    \/ TouchSteps

SpecEntry == InitCache /\ [][NextEntry]_vars

\* ======================================== the pool cache behind the fsCache
\* crd.CacheKeyURGFromMeta: UID, resource version and generation (one generation
\* per revision here)
CacheKeyURGFromMeta(m) == <<m.uid, m.rv, "g1">>
\* the addresses of the pods specialized for a function
PoolAddresses == {"a1", "a2", "a3"}
\* the FuncSvc the pool manager hands to AddFunc for the pod at address a
PoolFuncSvc(m, a) ==
    [NewFuncSvc(m) EXCEPT !.addr = a, !.exec = ExecutorTypePoolmgr]
\* the svcsRetain the callers pass for a function: one limit per function key
SvcsRetainOf(m) == IF m.rv = 1 THEN 1 ELSE 2

\* the entries under a function key, and the Available ones among them
Under(P, key) == {e \in P : e.key = key}
AvailableUnder(P, key) == {e \in Under(P, key) : e.state = "Available"}
\* the position of the next entry in the order in which entries became Available
NextOrd(P) == IF P = {} THEN 1 ELSE 1 + CHOOSE n \in {e.ord : e \in P} :
                                         \A e \in P : e.ord <= n

\* eviction: while more than svcsRetain entries of the key are Available, the
\* one that became Available the longest ago goes
RECURSIVE Evict(_, _, _)
Evict(P, key, svcsRetain) ==
    LET av == AvailableUnder(P, key) IN
    IF Cardinality(av) <= svcsRetain THEN P
    ELSE Evict(P \ {CHOOSE e \in av : \A x \in av : e.ord <= x.ord}, key, svcsRetain)

\* PoolCache.SetSvcValue: inserts or updates the address under the key, Available
\* as of now, and enforces svcsRetain
SetSvcValue(P, key, address, val, svcsRetain) ==
    Evict({e \in P : ~(e.key = key /\ e.address = address)}
            \cup {[key |-> key, address |-> address, val |-> val,
                    state |-> "Available", ord |-> NextOrd(P)]},
          key, svcsRetain)

\* ---- AddFunc(fsvc, requestsPerPod, svcsRetain): fsvc is the callee's copy of the
\* argument; SetSvcValue is given the key, the address and &fsvc
AddFuncMut(p, fsvc, svcsRetain) ==
    /\ Call(p, "AddFunc", fsvc @@ [svcsRetain |-> svcsRetain])
    /\ Len(heap) < MaxObjs
    /\ heap' = Append(heap, fsvc)
    /\ pool' = SetSvcValue(pool, CacheKeyURGFromMeta(fsvc.fn), fsvc.addr,
                           Len(heap) + 1, svcsRetain + 1)
    /\ Goto(p, "addf_ctime", [NoLoc EXCEPT !.ptr = Len(heap) + 1])
    /\ UNCHANGED <<now, byFunction, byAddress, byFunctionUID, workerVars>>
AddFunc(p, fsvc, svcsRetain) ==
    /\ Call(p, "AddFunc", fsvc @@ [svcsRetain |-> svcsRetain])
    /\ Len(heap) < MaxObjs
    /\ heap' = Append(heap, fsvc)
    /\ pool' = SetSvcValue(pool, CacheKeyURGFromMeta(fsvc.fn), fsvc.addr,
                           Len(heap) + 1, svcsRetain)
    /\ Goto(p, "addf_ctime", [NoLoc EXCEPT !.ptr = Len(heap) + 1])
    /\ UNCHANGED <<now, byFunction, byAddress, byFunctionUID, workerVars>>

\* now := time.Now(); fsvc.Ctime = now
AddFunc_StoreCtime(p) ==
    /\ At(p, {"AddFunc"}, "addf_ctime")
    /\ heap' = [heap EXCEPT ![loc[p].ptr].ctime = now]
    /\ Goto(p, "addf_atime", [loc[p] EXCEPT !.tnow = now])
    /\ UNCHANGED <<now, byFunction, byAddress, byFunctionUID, pool, workerVars, outerVars>>

\* fsvc.Atime = now; AddFunc returns nothing
AddFunc_StoreAtime(p) ==
    /\ At(p, {"AddFunc"}, "addf_atime")
    /\ heap' = [heap EXCEPT ![loc[p].ptr].atime = loc[p].tnow]
    /\ Return(p, RetErr("nil"))
    /\ UNCHANGED <<now, byFunction, byAddress, byFunctionUID, pool, workerVars, outerVars>>

\* ---- GetFuncSvc(m, requestsPerPod, concurrency) of the fsCache, with one request
\* per pod: GetSvcValue picks an Available entry of the key and marks it Assigned,
\* or returns NotFound; then time.Now() is evaluated
fsc_GetFuncSvc(p, m) ==
    /\ Call(p, "GetFuncSvc", m)
    /\ LET av == AvailableUnder(pool, CacheKeyURGFromMeta(m)) IN
       IF av = {}
       THEN /\ Return(p, RetErr("NotFound"))
            /\ UNCHANGED pool
       ELSE \E e \in av :
              /\ pool' = (pool \ {e}) \cup {[e EXCEPT !.state = "Assigned"]}
              /\ Goto(p, "get_store", [NoLoc EXCEPT !.ptr = e.val, !.tnow = now])
    /\ UNCHANGED <<now, heap, byFunction, byAddress, byFunctionUID, workerVars>>

NextPool ==
    \/ \E p \in Procs, m \in CacheMetas, a \in PoolAddresses :
         Direct(p) /\ AddFunc(p, PoolFuncSvc(m, a), SvcsRetainOf(m))
    \/ \E p \in Procs : AddFunc_StoreCtime(p)
    \/ \E p \in Procs : AddFunc_StoreAtime(p)
    \/ \E p \in Procs, m \in CacheMetas : Direct(p) /\ fsc_GetFuncSvc(p, m)
    \/ \E p \in Procs : GetSteps(p)
    \/ Tick

SpecPool == InitCache /\ [][NextPool]_vars

\* ================================== creation in the Container executor
\* goroutines p calling GetFuncSvc, the function informer's updateFunction, and
\* the goroutines of AdoptExistingResources, from an empty cache and cluster;
\* the cluster API answers every create-or-get
CreateFunctions ==
    {Fn("u1", 1, ExecutorTypeContainer, 1, NilInt), Fn("u1", 2, ExecutorTypeContainer, 1, NilInt),
     Fn("u2", 1, ExecutorTypeContainer, 1, NilInt), Fn("u2", 2, ExecutorTypePoolmgr, 1, NilInt)}

InitCreate == InitEmpty /\ epc = [p \in Procs |-> "idle"]

CreateSteps(p) ==
    \/ RunOnce_Receive(p)
    \/ createFunction_Lookup(p)
    \/ createFunction_LookupReturn(p)
    \/ fnCreate_Svc(p)
    \/ fnCreate_Depl(p)
    \/ fnCreate_Hpa(p)
    \/ fnCreate_Add(p)
    \/ fnCreate_Return(p)

NextCreate ==
    \/ \E p \in Procs, fn \in CreateFunctions : GetFuncSvc(p, fn)
    \/ \E p \in Procs, fn \in CreateFunctions : AdoptExistingResources(p, fn)
    \/ \E p \in Procs, oldFn, newFn \in CreateFunctions :
          /\ oldFn.meta.uid = newFn.meta.uid
          /\ oldFn.meta.rv = newFn.meta.rv \/ oldFn.exec # ExecutorTypeContainer
          /\ updateFunction(p, oldFn, newFn)
    \/ \E p \in Procs : CreateSteps(p)
    \/ \E key \in UIDs : Throttler_Delete(key)
    \/ \E p \in Procs : AddSteps(p)
    \/ \E p \in Procs : GetByFunctionUID_Get(p)
    \/ \E p \in Procs : GetSteps(p)
    \/ TouchSteps

SpecCreate == InitCreate /\ [][NextCreate]_vars

\* ---- creation with a cluster API that may fail any create-or-get: the
\* one function, created by GetFuncSvc and adopted at start
FailFunctions == {Fn("u1", 1, ExecutorTypeContainer, 1, NilInt)}

FailSteps(p) ==
    \/ fnCreate_SvcFails(p)
    \/ fnCreate_DeplFails(p)
    \/ fnCreate_HpaFails(p)

NextCreateFail ==
    \/ \E p \in Procs, fn \in FailFunctions : GetFuncSvc(p, fn)
    \/ \E p \in Procs, fn \in FailFunctions : AdoptExistingResources(p, fn)
    \/ \E p \in Procs : CreateSteps(p)
    \/ \E p \in Procs : rlog.failed < MaxFailures /\ FailSteps(p)
    \/ \E t \in tasks : cleanupContainer(t)
    \/ \E key \in UIDs : Throttler_Delete(key)
    \/ \E p \in Procs : AddSteps(p)
    \/ \E p \in Procs : GetByFunctionUID_Get(p)
    \/ \E p \in Procs : GetSteps(p)
    \/ TouchSteps

SpecCreateFail == InitCreate /\ [][NextCreateFail]_vars

\* ---- adoption after a restart: the cache is empty, the cluster holds the
\* Service, Deployment and HPA of two Container functions (the autoscaler having
\* moved the replicas); AdoptExistingResources and GetFuncSvc run any number of
\* times, those for one function one after the other
AdoptFunctions ==
    {Fn("u1", 1, ExecutorTypeContainer, 1, NilInt), Fn("u2", 1, ExecutorTypeContainer, 1, NilInt)}
ObjectsOf(fns, replicas) ==
    [n \in {ObjNameOf(fn.meta) : fn \in fns} |->
        LET fn == CHOOSE f \in fns : ObjNameOf(f.meta) = n IN
        [service |-> [uid |-> fn.meta.uid],
         deployment |-> getDeploymentSpec(fn, replicas),
         hpa |-> HpaOf(fn)]]

InitAdopt ==
    /\ now = 1
    /\ heap = <<>>
    /\ byFunction = <<>>
    /\ byAddress = <<>>
    /\ byFunctionUID = <<>>
    /\ pool = {}
    /\ wpc = "recv"
    /\ wreq = NoReq
    /\ wloc = NoWloc
    /\ pc = [p \in Procs |-> "idle"]
    /\ op = [p \in Procs |-> "none"]
    /\ arg = [p \in Procs |-> Nil]
    /\ loc = [p \in Procs |-> NoLoc]
    /\ ret = [p \in Procs |-> Nil]
    /\ hist = [p \in Procs |-> NoHist]
    /\ epc = [p \in Procs |-> "idle"]
    /\ eop = [p \in Procs |-> "none"]
    /\ earg = [p \in Procs |-> Nil]
    /\ eloc = [p \in Procs |-> NoEloc]
    /\ eret = [p \in Procs |-> Nil]
    /\ locks = <<>>
    /\ functions = [u \in {fn.meta.uid : fn \in AdoptFunctions} |->
                       CHOOSE fn \in AdoptFunctions : fn.meta.uid = u]
    /\ \E r \in {1, MaxReplicas} :
          LET objs == ObjectsOf(AdoptFunctions, r) IN
          /\ services = [n \in DOMAIN objs |-> objs[n].service]
          /\ deployments = [n \in DOMAIN objs |-> objs[n].deployment]
          /\ hpas = [n \in DOMAIN objs |-> objs[n].hpa]
    /\ tasks = {}
    /\ rlog = NoRlog

\* no Container method is running for the function of UID u
Settled(u) == \A q \in Procs : IF epc[q] = "idle" THEN TRUE ELSE earg[q].meta.uid # u

NextAdopt ==
    \/ \E p \in Procs, fn \in AdoptFunctions :
          Settled(fn.meta.uid) /\ AdoptExistingResources(p, fn)
    \/ \E p \in Procs, fn \in AdoptFunctions :
          Settled(fn.meta.uid) /\ GetFuncSvc(p, fn)
    \/ \E p \in Procs : createFunction_Lookup(p)
    \/ \E p \in Procs : createFunction_LookupReturn(p)
    \/ \E p \in Procs : fnCreate_Svc(p)
    \/ \E p \in Procs : fnCreate_Depl(p)
    \/ \E p \in Procs : fnCreate_Hpa(p)
    \/ \E p \in Procs : fnCreate_Add(p)
    \/ \E p \in Procs : fnCreate_Return(p)
    \/ \E key \in UIDs : Throttler_Delete(key)
    \/ \E p \in Procs : AddSteps(p)
    \/ \E p \in Procs : GetByFunctionUID_Get(p)
    \/ \E p \in Procs : GetSteps(p)
    \/ TouchSteps
    \/ Tick

SpecAdopt == InitAdopt /\ [][NextAdopt]_vars

\* ---- AdoptExistingResources as the executor runs it at start, with a cluster API
\* that may fail a List or a create-or-get
NextAdoptAll ==
    \/ adopt_Start
    \/ \E t \in tasks : adopt_List(t)
    \/ \E t \in tasks : rlog.failed < MaxFailures /\ adopt_ListFails(t)
    \/ \E t \in tasks : adopt_Go(t)
    \/ \E t \in tasks : adopt_Wait(t)
    \/ \E p \in Procs : fnCreate_Svc(p)
    \/ \E p \in Procs : fnCreate_Depl(p)
    \/ \E p \in Procs : fnCreate_Hpa(p)
    \/ \E p \in Procs : fnCreate_Add(p)
    \/ \E p \in Procs : fnCreate_Return(p)
    \/ \E p \in Procs : rlog.failed < MaxFailures /\ FailSteps(p)
    \/ \E t \in tasks : cleanupContainer(t)
    \/ \E p \in Procs : Add_StoreCtime(p)
    \/ \E p \in Procs : Add_StoreAtime(p)
    \/ \E p \in Procs : Add_ByAddress(p)
    \/ \E p \in Procs : Add_ByFunctionUID(p)

SpecAdoptAll == InitAdopt /\ [][NextAdoptAll]_vars

\* ================================================ the names of the objects
\* strings are sequences of characters; a name is made of one letter, in upper
\* or lower case; the leading characters of a UID differ from its last 17
Repeat(c, n) == [i \in 1..n |-> c]
Take(s, n) == SubSeq(s, 1, n)
\* strings.ToLower
Lower(c) == CASE c = "A" -> "a" [] c = "N" -> "n" [] c = "F" -> "f" [] OTHER -> c
ToLower(s) == [i \in 1..Len(s) |-> Lower(s[i])]
\* fn.ObjectMeta: Name, Namespace, UID and ResourceVersion
NameInputs ==
    {[name |-> Repeat(c, n), namespace |-> Repeat(d, k),
      uid |-> Repeat("F", l - 17) \o Repeat("0", 17), rv |-> r] :
        c \in {"a", "A"}, n \in 1..MaxNameLen, d \in {"n", "N"}, k \in 1..MaxNameLen,
        l \in 17..MaxUIDLen, r \in RVs}

\* getObjName(fn): "container-" functionMetadata "-" uid, lower-cased; uid is the
\* last 17 characters of the UID, functionMetadata is Name "-" Namespace, each cut
\* to 17 characters unless the two have fewer than 35 together
getObjNameMut(fn) ==
    ToLower(<<"c", "o", "n", "t", "a", "i", "n", "e", "r", "-">>
              \o fn.name \o <<"-">> \o fn.namespace
              \o <<"-">> \o SubSeq(fn.uid, Len(fn.uid) - 17 + 1, Len(fn.uid)))
getObjName(fn) ==
    LET uid == SubSeq(fn.uid, Len(fn.uid) - 17 + 1, Len(fn.uid))
        functionMetadata ==
            IF Len(fn.name) + Len(fn.namespace) < 35
            THEN fn.name \o <<"-">> \o fn.namespace
            ELSE (IF Len(fn.name) > 17 THEN Take(fn.name, 17) ELSE fn.name)
                   \o <<"-">>
                   \o (IF Len(fn.namespace) > 17 THEN Take(fn.namespace, 17) ELSE fn.namespace)
    IN  ToLower(<<"c", "o", "n", "t", "a", "i", "n", "e", "r", "-">>
                  \o functionMetadata \o <<"-">> \o uid)

\* the goroutines are about to call getObjName for some function
InitName ==
    /\ now = 1
    /\ heap = <<>>
    /\ byFunction = <<>>
    /\ byAddress = <<>>
    /\ byFunctionUID = <<>>
    /\ pool = {}
    /\ wpc = "recv"
    /\ wreq = NoReq
    /\ wloc = NoWloc
    /\ pc = [p \in Procs |-> "idle"]
    /\ op = [p \in Procs |-> "none"]
    /\ arg = [p \in Procs |-> Nil]
    /\ loc = [p \in Procs |-> NoLoc]
    /\ ret = [p \in Procs |-> Nil]
    /\ hist = [p \in Procs |-> NoHist]
    /\ epc = [p \in Procs |-> "idle"]
    /\ eop = [p \in Procs |-> "none"]
    /\ \E fn \in NameInputs : earg = [p \in Procs |-> fn]
    /\ eloc = [p \in Procs |-> NoEloc]
    /\ eret = [p \in Procs |-> Nil]
    /\ locks = <<>>
    /\ functions = <<>>
    /\ services = <<>>
    /\ deployments = <<>>
    /\ hpas = <<>>
    /\ tasks = {}
    /\ rlog = NoRlog

\* objName := caaf.getObjName(fn)
CallGetObjName(p) ==
    /\ epc[p] = "idle" /\ eop[p] = "none" /\ earg[p] # Nil
    /\ eop' = [eop EXCEPT ![p] = "getObjName"]
    /\ eret' = [eret EXCEPT ![p] = [name |-> getObjName(earg[p])]]
    /\ UNCHANGED <<now, cacheVars, workerVars, procVars, epc, earg, eloc, locks, clusterVars,
                   tasks, rlog>>

NextName == \E p \in Procs : CallGetObjName(p)

SpecName == InitName /\ [][NextName]_vars

\* ============================== the CLI: fission environment update
\* the flags that are copied into the field of the same name when they are set
PlainFlags == {"image", "builderImage", "builderCommand", "externalNetwork", "poolsize",
               "gracePeriod", "keepArchive", "imagePullSecret", "runtimeEnv"}
ResourceFlags == {"mincpu", "maxcpu", "minmemory", "maxmemory"}
\* cli.Input: the flags that are set, with their values; IsSet(flag)
IsSet(input, flag) == flag \in DOMAIN input
\* a v1.ResourceList: m[name] of a name that is not in the map is the zero Quantity
Quantity(m, name) == IF name \in DOMAIN m THEN m[name] ELSE 0
\* resource.ParseQuantity(strconv.Itoa(n) + suffix): the amount in thousandths of
\* a CPU for "m", in bytes for "Mi"; the text of an int always parses
ParseQuantity(n, suffix) == IF suffix = "m" THEN n ELSE n * 1048576
\* m[name] = q
SetQuantity(m, name, q) == (name :> q) @@ m

\* the environments the API holds, as far as the command reads them
EnvInputs ==
    {[version |-> v, image |-> "old", builderImage |-> b, builderCommand |-> "",
      externalNetwork |-> FALSE, poolsize |-> 3, gracePeriod |-> 360,
      keepArchive |-> FALSE, imagePullSecret |-> "", runtimeEnv |-> <<>>,
      requests |-> r.requests, limits |-> r.limits] :
        v \in {1, 2}, b \in {"", "old"},
        r \in {[requests |-> <<>>, limits |-> <<>>],
                [requests |-> [cpu |-> 1, memory |-> 1048576],
                 limits |-> [cpu |-> 2, memory |-> 2097152]]}}
ValueOf(flag) ==
    CASE flag \in {"externalNetwork", "keepArchive", "specsave"} -> TRUE
      [] flag \in {"poolsize", "gracePeriod"} -> 1
      [] flag = "runtimeEnv" -> <<"k=v">>
      [] OTHER -> "new"
\* the command lines: any of the four resource flags with a number, and at most
\* one of the other flags
FlagInputs ==
    UNION {UNION {{[f \in R \cup P |-> IF f \in R THEN q[f] ELSE ValueOf(f)] :
                     q \in [R -> 0..MaxQuantity]} :
                  P \in {{}} \cup {{f} : f \in PlainFlags \cup {"specsave"}}} :
           R \in SUBSET ResourceFlags}

\* ---- updateExistingEnvironmentWithCmd(env, input): (env, error); the error is
\* the list of what multierror.Append collected, <<>> for nil
updateExistingEnvironmentWithCmdMut(env, input) ==
    LET e0 == [k \in DOMAIN env |->
                 IF k \in PlainFlags /\ IsSet(input, k) THEN input[k] ELSE env[k]]
        req1 == IF IsSet(input, "mincpu")
                THEN SetQuantity(<<>>, "cpu", ParseQuantity(input["mincpu"], "m")) ELSE <<>>
        lim1 == IF IsSet(input, "maxcpu")
                THEN SetQuantity(<<>>, "cpu", ParseQuantity(input["maxcpu"], "m")) ELSE <<>>
        req2 == IF IsSet(input, "minmemory")
                THEN SetQuantity(req1, "memory", ParseQuantity(input["minmemory"], "Mi"))
                ELSE req1
        lim2 == IF IsSet(input, "maxmemory")
                THEN SetQuantity(lim1, "memory", ParseQuantity(input["maxmemory"], "Mi"))
                ELSE lim1
        lim3 == IF Quantity(lim2, "cpu") = 0 /\ Quantity(req2, "cpu") # 0
                THEN SetQuantity(lim2, "cpu", Quantity(req2, "cpu")) ELSE lim2
        lim4 == IF Quantity(lim3, "memory") = 0 /\ Quantity(req2, "memory") # 0
                THEN SetQuantity(lim3, "memory", Quantity(req2, "memory")) ELSE lim3
        e == IF e0.version = 1 /\ (e0.builderImage # "" \/ e0.builderCommand # "")
             THEN <<"version 1 Environments do not support builders">>
             ELSE IF Quantity(lim2, "cpu") # 0
                       /\ Quantity(lim2, "cpu") < Quantity(req2, "cpu")
             THEN <<"minCPU cannot be greater than MaxCPU">>
             ELSE IF Quantity(lim3, "memory") # 0
                       /\ Quantity(lim3, "memory") < Quantity(req2, "memory")
             THEN <<"minMemory cannot be greater than MaxMemory">>
             ELSE <<>>
    IN  IF e # <<>> THEN [env |-> Nil, err |-> e]
        ELSE [env |-> [e0 EXCEPT !.requests = req2, !.limits = lim4], err |-> <<>>]
updateExistingEnvironmentWithCmd(env, input) ==
    LET \* the plain flags: env.Spec.<field> = input.<flag> when the flag is set
        e0 == [k \in DOMAIN env |->
                 IF k \in PlainFlags /\ IsSet(input, k) THEN input[k] ELSE env[k]]
        err1 == IF e0.version = 1 /\ (e0.builderImage # "" \/ e0.builderCommand # "")
                THEN <<"version 1 Environments do not support builders">> ELSE <<>>
        \* Requests and Limits = make(v1.ResourceList), then the four flags
        req1 == IF IsSet(input, "mincpu")
                THEN SetQuantity(<<>>, "cpu", ParseQuantity(input["mincpu"], "m")) ELSE <<>>
        lim1 == IF IsSet(input, "maxcpu")
                THEN SetQuantity(<<>>, "cpu", ParseQuantity(input["maxcpu"], "m")) ELSE <<>>
        req2 == IF IsSet(input, "minmemory")
                THEN SetQuantity(req1, "memory", ParseQuantity(input["minmemory"], "Mi"))
                ELSE req1
        lim2 == IF IsSet(input, "maxmemory")
                THEN SetQuantity(lim1, "memory", ParseQuantity(input["maxmemory"], "Mi"))
                ELSE lim1
        \* limitCPU.IsZero() && !requestCPU.IsZero(), else limitCPU.Cmp(requestCPU) < 0
        limitCPU == Quantity(lim2, "cpu")
        requestCPU == Quantity(req2, "cpu")
        lim3 == IF limitCPU = 0 /\ requestCPU # 0
                THEN SetQuantity(lim2, "cpu", requestCPU) ELSE lim2
        err2 == IF ~(limitCPU = 0 /\ requestCPU # 0) /\ limitCPU < requestCPU
                THEN <<"minCPU cannot be greater than MaxCPU">> ELSE <<>>
        limitMem == Quantity(lim3, "memory")
        requestMem == Quantity(req2, "memory")
        lim4 == IF limitMem = 0 /\ requestMem # 0
                THEN SetQuantity(lim3, "memory", requestMem) ELSE lim3
        err3 == IF ~(limitMem = 0 /\ requestMem # 0) /\ limitMem < requestMem
                THEN <<"minMemory cannot be greater than MaxMemory">> ELSE <<>>
        e == err1 \o err2 \o err3
    IN  IF e # <<>> THEN [env |-> Nil, err |-> e]
        ELSE [env |-> [e0 EXCEPT !.requests = req2, !.limits = lim4], err |-> <<>>]

\* what the command has returned, and the environment it gave to Environments.Update
Done(e, sent) == [err |-> e, sent |-> sent]
CliProc == "p1"

\* a command line and the environment it names
InitEnv ==
    /\ now = 1
    /\ heap = <<>>
    /\ byFunction = <<>>
    /\ byAddress = <<>>
    /\ byFunctionUID = <<>>
    /\ pool = {}
    /\ wpc = "recv"
    /\ wreq = NoReq
    /\ wloc = NoWloc
    /\ pc = [p \in Procs |-> "idle"]
    /\ op = [p \in Procs |-> "none"]
    /\ arg = [p \in Procs |-> Nil]
    /\ loc = [p \in Procs |-> NoLoc]
    /\ ret = [p \in Procs |-> Nil]
    /\ hist = [p \in Procs |-> NoHist]
    /\ epc = [p \in Procs |-> "idle"]
    /\ eop = [p \in Procs |-> "none"]
    /\ \E env \in EnvInputs, input \in FlagInputs :
          earg = [p \in Procs |-> IF p = CliProc THEN [env |-> env, input |-> input]
                                  ELSE Nil]
    /\ eloc = [p \in Procs |-> NoEloc]
    /\ eret = [p \in Procs |-> Nil]
    /\ locks = <<>>
    /\ functions = <<>>
    /\ services = <<>>
    /\ deployments = <<>>
    /\ hpas = <<>>
    /\ tasks = {}
    /\ rlog = NoRlog

EnvStep(p) == UNCHANGED <<now, cacheVars, workerVars, procVars, locks, clusterVars, tasks, rlog>>

\* complete: env, err := Environments(ns).Get(name)
complete_Get(p) ==
    /\ epc[p] = "idle" /\ eop[p] = "none" /\ earg[p] # Nil
    /\ eop' = [eop EXCEPT ![p] = "Update"]
    /\ EGoto(p, "env_update", [NoEloc EXCEPT !.got = earg[p].env])
    /\ UNCHANGED earg
    /\ EnvStep(p)

\* the Get failed: "error finding environment"
complete_GetFails(p) ==
    /\ epc[p] = "idle" /\ eop[p] = "none" /\ earg[p] # Nil
    /\ eop' = [eop EXCEPT ![p] = "Update"]
    /\ EReturn(p, Done(<<"error finding environment">>, Nil))
    /\ UNCHANGED earg
    /\ EnvStep(p)

\* env, err = updateExistingEnvironmentWithCmd(env, input); an error ends the
\* command, else opts.env = env (no label or annotation flags are given)
complete_Update(p) ==
    /\ EAt(p, "env_update")
    /\ LET r == updateExistingEnvironmentWithCmd(eloc[p].got, earg[p].input) IN
       IF r.err # <<>> THEN EReturn(p, Done(r.err, Nil))
       ELSE EGoto(p, "env_run", [NoEloc EXCEPT !.got = r.env])
    /\ EnvStep(p)

\* run: with --spec the environment goes to a spec file; else
\* Environments(ns).Update(opts.env)
run(p) ==
    /\ EAt(p, "env_run")
    /\ IF IsSet(earg[p].input, "specsave")
       THEN \E e \in {<<>>, <<"Environment validation">>} : EReturn(p, Done(e, Nil))
       ELSE EReturn(p, Done(<<>>, eloc[p].got))
    /\ EnvStep(p)

\* the Update failed: "error updating environment"
run_UpdateFails(p) ==
    /\ EAt(p, "env_run")
    /\ ~IsSet(earg[p].input, "specsave")
    /\ EReturn(p, Done(<<"error updating environment">>, eloc[p].got))
    /\ EnvStep(p)

NextEnv ==
    \/ complete_Get(CliProc)
    \/ complete_GetFails(CliProc)
    \/ complete_Update(CliProc)
    \/ run(CliProc)
    \/ run_UpdateFails(CliProc)

SpecEnv == InitEnv /\ [][NextEnv]_vars

\* ======================================================= the idle reaper
\* the reaper goroutine and a goroutine of the router tapping services, on a
\* cache and a cluster as the creation of two functions left them at time 1
\* (the autoscaler having moved the replicas since): f1 with IdleTimeout 2 s and
\* MinScale 1, f2 with no IdleTimeout and MinScale 0; f2 may be gone by now
ReaperProc == "p1"
RouterProc == "p2"
ReaperFunctions ==
    [u1 |-> Fn("u1", 1, ExecutorTypeContainer, 1, 2),
     u2 |-> Fn("u2", 1, ExecutorTypeContainer, 0, NilInt)]
\* the instants (seconds) at which the clock is looked at
Instants == {1, 5, 61}
\* the record Add stored for fn at time t
Added(fn, t) == [NewFuncSvc(fn.meta) EXCEPT !.ctime = t, !.atime = t]

InitReaper ==
    /\ now = 1
    /\ heap = <<Added(ReaperFunctions.u1, 1), Added(ReaperFunctions.u2, 1)>>
    /\ byFunction = [k \in {CacheKeyURFromMeta(heap[i].fn) : i \in 1..2} |->
                        CHOOSE i \in 1..2 : CacheKeyURFromMeta(heap[i].fn) = k]
    /\ byAddress = [a \in {heap[i].addr : i \in 1..2} |->
                       heap[CHOOSE i \in 1..2 : heap[i].addr = a].fn]
    /\ byFunctionUID = [u \in UIDs |-> ReaperFunctions[u].meta]
    /\ pool = {}
    /\ wpc = "recv"
    /\ wreq = NoReq
    /\ wloc = NoWloc
    /\ pc = [p \in Procs |-> "idle"]
    /\ op = [p \in Procs |-> "none"]
    /\ arg = [p \in Procs |-> Nil]
    /\ loc = [p \in Procs |-> NoLoc]
    /\ ret = [p \in Procs |-> Nil]
    /\ hist = [p \in Procs |-> NoHist]
    /\ epc = [p \in Procs |-> "idle"]
    /\ eop = [p \in Procs |-> "none"]
    /\ earg = [p \in Procs |-> Nil]
    /\ eloc = [p \in Procs |-> NoEloc]
    /\ eret = [p \in Procs |-> Nil]
    /\ locks = <<>>
    /\ functions \in {ReaperFunctions, [u \in {"u1"} |-> ReaperFunctions[u]]}
    /\ services = [n \in {heap[i].name : i \in 1..2} |->
                      [uid |-> heap[CHOOSE i \in 1..2 : heap[i].name = n].fn.uid]]
    /\ hpas = services
    /\ \E r \in 0..MaxReplicas :
          deployments = [n \in DOMAIN services |->
                           [uid |-> services[n].uid,
                            replicas |-> IF services[n].uid = "u1" THEN r ELSE 0]]
    /\ tasks = {}
    /\ rlog = NoRlog

\* time passes
Advance ==
    /\ \E t \in Instants : t > now /\ now' = t
    /\ UNCHANGED <<cacheVars, workerVars, procVars, outerVars>>

ReaperSteps(p) ==
    \/ reaper_Listed(p)
    \/ reaper_GetFunction(p)
    \/ reaper_CheckIdle(p)

NextReaper ==
    \/ doIdleObjectReaper(ReaperProc)
    \/ ReaperSteps(ReaperProc)
    \/ \E t \in tasks : task_GetDeployment(t)
    \/ \E t \in tasks : task_Scale(t)
    \/ \E a \in Addresses : TapService(RouterProc, a)
    \/ TapService_Return(RouterProc)
    \/ TouchSteps
    \/ service_ListOldCopy
    \/ service_ListOldIter
    \/ Advance

SpecReaper == InitReaper /\ [][NextReaper]_vars

\* ---- the reaper on a cache that holds, next to the entry of the Container
\* function f1, an entry that another executor added for f2 with its own tag
\* (Add takes any FuncSvc); both have a deployment, f2's above its MinScale
TaggedFunctions ==
    [u1 |-> Fn("u1", 1, ExecutorTypeContainer, 1, 2),
     u2 |-> Fn("u2", 1, ExecutorTypePoolmgr, 0, NilInt)]

InitTagged ==
    /\ now = 1
    /\ heap = <<Added(TaggedFunctions.u1, 1),
                [Added(TaggedFunctions.u2, 1) EXCEPT !.exec = ExecutorTypePoolmgr]>>
    /\ byFunction = [k \in {CacheKeyURFromMeta(heap[i].fn) : i \in 1..2} |->
                        CHOOSE i \in 1..2 : CacheKeyURFromMeta(heap[i].fn) = k]
    /\ byAddress = [a \in {heap[i].addr : i \in 1..2} |->
                       heap[CHOOSE i \in 1..2 : heap[i].addr = a].fn]
    /\ byFunctionUID = [u \in UIDs |-> TaggedFunctions[u].meta]
    /\ pool = {}
    /\ wpc = "recv"
    /\ wreq = NoReq
    /\ wloc = NoWloc
    /\ pc = [p \in Procs |-> "idle"]
    /\ op = [p \in Procs |-> "none"]
    /\ arg = [p \in Procs |-> Nil]
    /\ loc = [p \in Procs |-> NoLoc]
    /\ ret = [p \in Procs |-> Nil]
    /\ hist = [p \in Procs |-> NoHist]
    /\ epc = [p \in Procs |-> "idle"]
    /\ eop = [p \in Procs |-> "none"]
    /\ earg = [p \in Procs |-> Nil]
    /\ eloc = [p \in Procs |-> NoEloc]
    /\ eret = [p \in Procs |-> Nil]
    /\ locks = <<>>
    /\ functions = TaggedFunctions
    /\ services = [n \in {heap[i].name : i \in 1..2} |->
                      [uid |-> heap[CHOOSE i \in 1..2 : heap[i].name = n].fn.uid]]
    /\ hpas = services
    /\ \E r \in 0..MaxReplicas :
          deployments = [n \in DOMAIN services |->
                           [uid |-> services[n].uid,
                            replicas |-> IF services[n].uid = "u1" THEN r ELSE MaxReplicas]]
    /\ tasks = {}
    /\ rlog = NoRlog

SpecTagged == InitTagged /\ [][NextReaper]_vars

\* ---- the reaper with a cluster API that may fail a Get of a function or a scale
NextReaperFail ==
    \/ NextReaper
    \/ rlog.failed < MaxFailures /\ reaper_GetFunctionFails(ReaperProc)
    \/ \E t \in tasks : task_ScaleFails(t)

SpecReaperFail == InitReaper /\ [][NextReaperFail]_vars

\* ---- the router's goroutine taps services while another goroutine adds and
\* deletes the cache entries of the revisions of a function
InitTap ==
    /\ InitEmpty
    /\ epc = [p \in Procs |-> IF p = RouterProc THEN "idle" ELSE "none"]

NextTap ==
    \/ \E a \in CacheAddresses : TapService(RouterProc, a)
    \/ TapService_Return(RouterProc)
    \/ CallAdd(ReaperProc)
    \/ CallDeleteEntry(ReaperProc)
    \/ AddSteps(ReaperProc)
    \/ DeleteSteps(ReaperProc)
    \/ TouchSteps
    \/ Tick

SpecTap == InitTap /\ [][NextTap]_vars

\* ================================================================ claims
\* the first record stored under the key of m
FirstStored(m) == CHOOSE i \in 1..Len(heap) :
                     /\ heap[i].fn = m
                     /\ \A j \in 1..Len(heap) : heap[j].fn = m => i <= j
\* an Add call of p that has returned
AddReturned(p) == op[p] = "Add" /\ pc[p] = "idle" /\ ret[p] # Nil
\* copies of one record taken at different times differ in Atime/Ctime at most
SameEntry(f, g) == [f EXCEPT !.atime = 0, !.ctime = 0] = [g EXCEPT !.atime = 0, !.ctime = 0]

\* a GetFuncSvc call of p for a Container function that has returned without error
GotFuncSvc(p) ==
    /\ eop[p] = "GetFuncSvc" /\ epc[p] = "idle"
    /\ earg[p].exec = ExecutorTypeContainer
    /\ eret[p] # Nil /\ eret[p].err = "nil"

\* C1: whatever GetFuncSvc calls run (concurrently or not) for a Container
\* function, starting with an empty cache and cluster, there is never more than
\* one Service, one Deployment and one HPA of that function; once a call has
\* returned without error there is exactly one of each, and all the calls for
\* the function that returned without error got a FuncSvc with the same address.
C1_SingleFlight ==
    /\ \A u \in UIDs :
          /\ Cardinality(LabelledWith(services, u)) <= 1
          /\ Cardinality(LabelledWith(deployments, u)) <= 1
          /\ Cardinality(LabelledWith(hpas, u)) <= 1
    /\ \A p \in Procs : GotFuncSvc(p) =>
          LET u == earg[p].meta.uid IN
          /\ Cardinality(LabelledWith(services, u)) = 1
          /\ Cardinality(LabelledWith(deployments, u)) = 1
          /\ Cardinality(LabelledWith(hpas, u)) = 1
          /\ eret[p].fsvc # Nil
          /\ \A q \in Procs : (GotFuncSvc(q) /\ earg[q].meta.uid = u) =>
                eret[q].fsvc.addr = eret[p].fsvc.addr

\* C1 witness: two callers have got the FuncSvc of u1, for different revisions of
\* the function, within the life of one lock of the throttler (the second one
\* blocked on the first, or came right after it), and u1 has one object of each kind
C1_Witness ==
    /\ GotFuncSvc("p1") /\ GotFuncSvc("p2")
    /\ earg["p1"] = Fn("u1", 1, ExecutorTypeContainer, 1, NilInt)
    /\ earg["p2"] = Fn("u1", 2, ExecutorTypeContainer, 1, NilInt)
    /\ "u1" \in DOMAIN locks /\ locks["u1"] = "done"
    /\ Cardinality(LabelledWith(deployments, "u1")) = 1

\* C2: at any time at most one goroutine is inside fnCreate for a given function
\* UID, whichever entry point started it (GetFuncSvc, updateFunction's transition
\* into Container, AdoptExistingResources).
C2_OneCreationPerUID ==
    \A u \in UIDs :
        Cardinality({p \in Procs : InFnCreate(p) /\ earg[p].meta.uid = u}) <= 1

\* the scale calls a pass made for the record ptr
CallsFor(pass, ptr) ==
    {i \in DOMAIN rlog.calls : rlog.calls[i].pass = pass /\ rlog.calls[i].ptr = ptr}
\* the idle timeout of a function: its IdleTimeout, else the controller's default
TimeoutOf(fn) == IF fn.idleTimeout = NilInt THEN defaultIdlePodReapTime ELSE fn.idleTimeout
\* a pass has run, and the tasks it started have finished
PassOver == rlog.pass >= 1 /\ epc[ReaperProc] = "idle" /\ tasks = {}

C10_ReaperKeepsEntries ==
    rlog.pass >= 1 =>
      /\ byFunction = rlog.snap.byFunction
      /\ byAddress = rlog.snap.byAddress
      /\ byFunctionUID = rlog.snap.byFunctionUID
      /\ \A uid \in DOMAIN rlog.snap.byFunctionUID :
            LET key == CacheKeyURFromMeta(rlog.snap.byFunctionUID[uid]) IN
            CacheHas(rlog.snap.byFunction, key) =>
              /\ Resolves(uid)
              /\ Resolved(uid).addr = rlog.snap.heap[rlog.snap.byFunction[key]].addr
              /\ Resolved(uid).kobjs = rlog.snap.heap[rlog.snap.byFunction[key]].kobjs

\* C10 witness: the pass and its task are over, the deployment of f1 went from 2
\* replicas to 1, and u1 still resolves to the entry of f1
C10_Witness ==
    /\ PassOver
    /\ Len(rlog.calls) >= 1
    /\ \E d \in rlog.done : heap[d.ptr].fn.uid = "u1" /\ d.replicas = 2
    /\ deployments[ObjNameOf(Meta("u1", 1))].replicas = 1
    /\ Resolves("u1")
    /\ Resolved("u1").addr = AddressOf(Meta("u1", 1))

\* C3: after any Add calls with one function key (sequential or concurrent) the
\* by-function index holds one entry for the key, it is the record of the first
\* insert, and an Add that was not the first returns a copy of that record and
\* no error.
C3_AddIdempotent ==
    \A p \in Procs : AddReturned(p) =>
        LET key == CacheKeyURFromMeta(arg[p].fn) IN
        /\ CacheHas(byFunction, key)
        /\ byFunction[key] = FirstStored(arg[p].fn)
        /\ ret[p].err = "nil"
        /\ ret[p].fsvc # Nil => SameEntry(ret[p].fsvc, heap[byFunction[key]])

\* C4: no caller of a queued operation waits on a worker that has stopped: the
\* service() goroutine never returns, so every request handed over (or about to
\* be) is still going to be taken and replied to.
C4_WorkerNeverStops ==
    \A p \in Procs : pc[p] \in {"send", "wait"} => wpc # "exited"

\* C5: the queued operations run one at a time on the single worker, in the
\* order in which they were handed over: while a caller waits for its reply the
\* worker holds exactly that caller's request, no second request is accepted
\* until the reply is delivered, and the worker is busy only on behalf of the
\* one caller waiting.
C5_OneAtATimeInOrder ==
    LET waiting == {p \in Procs : pc[p] = "wait"} IN
    /\ Cardinality(waiting) <= 1
    /\ \A p \in waiting : wpc # "recv" /\ wreq = RequestOf(p)
    /\ wpc # "recv" => waiting = ReplyTo(wreq)

\* C5 witness: one caller is being served while the other stands at the channel
C5_Witness ==
    /\ pc["p1"] = "wait" /\ wpc = "list_iter" /\ wreq.from = "p1"
    /\ pc["p2"] = "send" /\ op["p2"] = "TouchByAddress"

\* C6: a GetByFunction that follows a successful TouchByAddress of the same caller
\* on the address of that function returns an Atime not before the time the
\* touch was issued.
C6_GetAfterTouch ==
    \A p \in Procs :
        (op[p] = "GetByFunction" /\ pc[p] = "idle" /\ ret[p] # Nil
           /\ ret[p].fsvc # Nil /\ hist[p].m = arg[p])
        => ret[p].fsvc.atime >= hist[p].at

\* C7: once its Ctime is set, the Atime of a record never decreases.
C7_AtimeMonotonic ==
    [][\A i \in 1..Len(heap) :
          heap[i].ctime # ZeroTime => heap'[i].atime >= heap[i].atime]_vars

\* C8: DeleteOld(fsvc, minAge), fsvc being the value the caller passes: when
\* time.Since(fsvc.Atime) < minAge the call changes no index and returns false;
\* otherwise it deletes the function key from by-function, the address from
\* by-address and the UID from by-UID, and returns true.
C8_DeleteOld ==
    [][\A p \in Procs :
         LET a == arg'[p]
             young == now - a.atime < a.minAge
             idx == <<byFunction, byAddress, byFunctionUID>>
             idx2 == <<byFunction', byAddress', byFunctionUID'>>
         IN  op'[p] = "DeleteOld" =>
             /\ (pc[p] = "idle" /\ pc'[p] = "old_young") => (young /\ idx2 = idx)
             /\ (pc[p] = "old_young" /\ pc'[p] = "idle") =>
                    (ret'[p].deleted = FALSE /\ idx2 = idx)
             /\ (pc[p] = "idle" /\ pc'[p] = "del_addr") =>
                    (~young /\ ~CacheHas(byFunction', CacheKeyURFromMeta(a.fn)))
             /\ (pc[p] = "del_addr" /\ pc'[p] = "del_uid") => ~CacheHas(byAddress', a.addr)
             /\ (pc[p] = "del_uid" /\ pc'[p] = "idle") =>
                    (ret'[p].deleted = TRUE /\ ~CacheHas(byFunctionUID', a.fn.uid))
      ]_vars

\* C8 witness: one DeleteOld has refused an entry younger than minAge (the record is
\* still reachable through all three indices) and, the clock having moved on, a
\* DeleteOld with the same minAge has removed an entry
C8_Witness ==
    /\ op["p1"] = "DeleteOld" /\ pc["p1"] = "idle" /\ ret["p1"] = RetBool(FALSE)
    /\ arg["p1"].minAge = 1
    /\ CacheHas(byFunction, CacheKeyURFromMeta(arg["p1"].fn))
    /\ CacheHas(byAddress, arg["p1"].addr)
    /\ CacheHas(byFunctionUID, arg["p1"].fn.uid)
    /\ op["p2"] = "DeleteOld" /\ pc["p2"] = "idle" /\ ret["p2"] = RetBool(TRUE)
    /\ arg["p2"].minAge = 1

\* ============================================ a function being served
\* the cache as the creation of fn left it at time 1, with the services, the
\* deployments and the autoscalers as given
Named(fn, obj) == (ObjNameOf(fn.meta) :> obj)
InitServed(fn, svcs, depls, hps) ==
    /\ now = 1
    /\ heap = <<Added(fn, 1)>>
    /\ byFunction = (CacheKeyURFromMeta(fn.meta) :> 1)
    /\ byAddress = (AddressOf(fn.meta) :> fn.meta)
    /\ byFunctionUID = (fn.meta.uid :> fn.meta)
    /\ pool = {}
    /\ wpc = "recv"
    /\ wreq = NoReq
    /\ wloc = NoWloc
    /\ pc = [p \in Procs |-> "idle"]
    /\ op = [p \in Procs |-> "none"]
    /\ arg = [p \in Procs |-> Nil]
    /\ loc = [p \in Procs |-> NoLoc]
    /\ ret = [p \in Procs |-> Nil]
    /\ hist = [p \in Procs |-> NoHist]
    /\ epc = [p \in Procs |-> "idle"]
    /\ eop = [p \in Procs |-> "none"]
    /\ earg = [p \in Procs |-> Nil]
    /\ eloc = [p \in Procs |-> NoEloc]
    /\ eret = [p \in Procs |-> Nil]
    /\ locks = <<>>
    /\ functions = (fn.meta.uid :> fn)
    /\ services = svcs
    /\ deployments = depls
    /\ hpas = hps
    /\ tasks = {}
    /\ rlog = NoRlog

\* ---- explicit deletion: the function informer's deleteFunction, next to
\* callers that look the entry up, drop it from the cache (as they do with an
\* entry that IsValid rejected) and tap the service
ServedFunction == Fn("u1", 1, ExecutorTypeContainer, 1, NilInt)
\* the informer delivers the events of the functions one at a time
InformerProc == "p1"
\* the deleted function comes with a new resource version
DeleteFunctions ==
    {Fn("u1", 2, ExecutorTypeContainer, 1, NilInt), Fn("u1", 2, ExecutorTypePoolmgr, 1, NilInt)}

InitDeleteFn ==
    InitServed(ServedFunction, Named(ServedFunction, [uid |-> "u1"]),
               Named(ServedFunction, [uid |-> "u1", replicas |-> 1]),
               Named(ServedFunction, [uid |-> "u1"]))

NextDeleteFn ==
    \/ \E fn \in DeleteFunctions : CallDeleteFunction(InformerProc, fn)
    \/ fnDelete_Lookup(InformerProc)
    \/ fnDelete_Cleanup(InformerProc)
    \/ rlog.failed < MaxFailures /\ fnDelete_CleanupFails(InformerProc)
    \/ \E p \in Procs : GetFuncSvcFromCache(p, ServedFunction)
    \/ \E p \in Procs : GetFuncSvcFromCache_Return(p)
    \/ \E p \in Procs :
          /\ eret[p] # Nil /\ eret[p].fsvc # Nil
          /\ DeleteFuncSvcFromCache(p, eret[p].fsvc)
    \/ \E p \in Procs : DeleteFuncSvcFromCache_Return(p)
    \/ \E p \in Procs : GetByFunctionUID_Get(p)
    \/ \E p \in Procs : GetSteps(p)
    \/ \E p \in Procs : DeleteSteps(p)
    \/ Tick

SpecDeleteFn == InitDeleteFn /\ [][NextDeleteFn]_vars

\* ---- IsValid on entries of the served function, in a cluster where any of
\* its objects may be gone and the deployment has 0 or 1 available replicas
ValidInputs ==
    {[NewFuncSvc(ServedFunction.meta) EXCEPT !.addr = a, !.kobjs = k] :
        a \in {AddressOf(ServedFunction.meta), EmptyAddress},
        k \in {KubeObjRefs(ServedFunction.meta), <<"service">>, <<>>}}

InitValid ==
    \E present \in SUBSET Kinds, a \in 0..1 :
        InitServed(ServedFunction,
                   IF "service" \in present THEN Named(ServedFunction, [uid |-> "u1"]) ELSE <<>>,
                   IF "deployment" \in present
                   THEN Named(ServedFunction, [uid |-> "u1", replicas |-> 1, available |-> a])
                   ELSE <<>>,
                   IF "horizontalpodautoscaler" \in present
                   THEN Named(ServedFunction, [uid |-> "u1"]) ELSE <<>>)

NextValid ==
    \/ \E p \in Procs, fsvc \in ValidInputs : IsValid(p, fsvc)
    \/ \E p \in Procs : IsValid_Check(p)

SpecValid == InitValid /\ [][NextValid]_vars

\* ---- updates of the served function, delivered by the informer one at a
\* time: each event carries the object of the previous event as oldFn
UpdateSpecs ==
    {ServedFunction,
     [ServedFunction EXCEPT !.maxScale = 3],
     [ServedFunction EXCEPT !.minScale = 2, !.metrics = "m2"],
     [ServedFunction EXCEPT !.behavior = "b2"],
     [ServedFunction EXCEPT !.specializationTimeout = 2],
     [ServedFunction EXCEPT !.secrets = <<"s1">>],
     [ServedFunction EXCEPT !.secrets = <<"s2">>],
     [ServedFunction EXCEPT !.configMaps = <<"c1">>, !.podSpec = "pod2"],
     [ServedFunction EXCEPT !.maxScale = 3, !.podSpec = "pod2"]}
UpdateFunctions == {[f EXCEPT !.meta = Meta("u1", r)] : f \in UpdateSpecs, r \in RVs}
OldFn == IF eop[InformerProc] = "updateFunction" THEN earg[InformerProc] ELSE ServedFunction

\* the autoscaler has moved the replicas since the creation
InitUpdate ==
    \E r \in {0, MaxReplicas} :
        InitServed(ServedFunction, Named(ServedFunction, [uid |-> "u1"]),
                   Named(ServedFunction, getDeploymentSpec(ServedFunction, r)),
                   Named(ServedFunction, HpaOf(ServedFunction)))

UpdateSteps(p) ==
    \/ updateFunction_GetHpa(p)
    \/ updateFunction_UpdateHpa(p)
    \/ updateFunction_Deploy(p)
    \/ updateFuncDeployment_Get(p)
    \/ updateFuncDeployment_Update(p)

UpdateFails(p) ==
    \/ updateFunction_GetHpaFails(p)
    \/ updateFunction_UpdateHpaFails(p)
    \/ updateFuncDeployment_GetFails(p)
    \/ updateFuncDeployment_UpdateFails(p)

NextUpdate ==
    \/ \E newFn \in UpdateFunctions : updateFunction(InformerProc, OldFn, newFn)
    \/ UpdateSteps(InformerProc)
    \/ rlog.failed < MaxFailures /\ UpdateFails(InformerProc)
    \/ GetByFunctionUID_Get(InformerProc)
    \/ GetSteps(InformerProc)

SpecUpdate == InitUpdate /\ [][NextUpdate]_vars

\* ---- updates that change the executor type of the function, or not
DispatchFunctions ==
    {[f EXCEPT !.meta = Meta("u1", r)] :
        f \in {ServedFunction, [ServedFunction EXCEPT !.maxScale = 3, !.podSpec = "pod2"],
               [ServedFunction EXCEPT !.exec = ExecutorTypePoolmgr],
               [ServedFunction EXCEPT !.exec = ExecutorTypePoolmgr, !.maxScale = 3]},
        r \in RVs}

NextDispatch ==
    \/ \E newFn \in DispatchFunctions : updateFunction(InformerProc, OldFn, newFn)
    \/ UpdateSteps(InformerProc)
    \/ fnDelete_Lookup(InformerProc)
    \/ fnDelete_Cleanup(InformerProc)
    \/ createFunction_Lookup(InformerProc)
    \/ createFunction_LookupReturn(InformerProc)
    \/ fnCreate_Svc(InformerProc)
    \/ fnCreate_Depl(InformerProc)
    \/ fnCreate_Hpa(InformerProc)
    \/ fnCreate_Add(InformerProc)
    \/ fnCreate_Return(InformerProc)
    \/ \E key \in UIDs : Throttler_Delete(key)
    \/ AddSteps(InformerProc)
    \/ GetByFunctionUID_Get(InformerProc)
    \/ GetSteps(InformerProc)
    \/ DeleteSteps(InformerProc)
    \/ TouchSteps

SpecDispatch == InitUpdate /\ [][NextDispatch]_vars

\* ------------------------------------------------ creation that fails
\* p leaves fnCreate at the place of a cluster call: the call failed
FailsAt(p, at) == epc[p] = at /\ epc'[p] = "idle"
CleanupPending(name) == \E t \in tasks : t.pc = "cleanup" /\ t.name = name

\* C11: when the create-or-get of the service, of the deployment or of the HPA
\* fails, the attempt returns a nil FuncSvc and a non-nil error, a cleanup of the
\* attempt's object name has been started, and the attempt has put nothing into
\* the fsCache: the failing step leaves the cache alone and no Add was called by
\* the attempt before it.
C11_FailedAttempt ==
    /\ [](\A p \in Procs : epc[p] \in {"fn_svc", "fn_depl", "fn_hpa"} =>
             op[p] = "none" /\ pc[p] = "idle")
    /\ [][\A p \in Procs : \A at \in {"fn_svc", "fn_depl", "fn_hpa"} : FailsAt(p, at) =>
             /\ eret'[p].fsvc = Nil
             /\ eret'[p].err # "nil"
             /\ CleanupPending(ObjNameOf(earg[p].meta))'
             /\ UNCHANGED <<cacheVars, procVars>>]_vars

\* C11 witness: the deployment call of p1's GetFuncSvc failed after the service
\* was created; p1 has its error, the cleanup is pending and the cache is empty
C11_Witness ==
    /\ eop["p1"] = "GetFuncSvc" /\ epc["p1"] = "idle"
    /\ eret["p1"] # Nil /\ eret["p1"].err = "error" /\ eret["p1"].fsvc = Nil
    /\ \E t \in tasks : t.pc = "cleanup" /\ t.at = "fn_depl"
    /\ ObjNameOf(earg["p1"].meta) \in DOMAIN services
    /\ heap = <<>>

\* C12: the cleanup of a failed attempt deletes only objects that attempt
\* created: none when the service call failed, the service at most when the
\* deployment call failed, and never the HPA, whose call comes last.
C12_CleanupOnlyOwn ==
    [][\A t \in tasks : (t.pc = "cleanup" /\ t \notin tasks') =>
          /\ services' # services => t.at \in {"fn_depl", "fn_hpa"}
          /\ deployments' # deployments => t.at = "fn_hpa"
          /\ hpas' = hpas]_vars

\* C13: within one attempt the deployment call is made only after the service
\* call succeeded, the HPA call only after the deployment call succeeded, and
\* fsCache.Add only after the HPA call succeeded; none is skipped or reordered.
Enters(p, at) == epc'[p] = at /\ epc[p] # at
C13_CreationOrder ==
    [][\A p \in Procs : LET name == ObjNameOf(earg[p].meta) IN
          /\ Enters(p, "fn_depl") => epc[p] = "fn_svc" /\ name \in DOMAIN services'
          /\ Enters(p, "fn_hpa") => epc[p] = "fn_depl" /\ name \in DOMAIN deployments'
          /\ Enters(p, "fn_add") => epc[p] = "fn_hpa" /\ name \in DOMAIN hpas'
          /\ (op'[p] = "Add" /\ op[p] # "Add") => epc[p] = "fn_add"
          /\ Enters(p, "fn_added") => epc[p] = "fn_add"]_vars

\* C13 witness: p1 is about to call Add, the three objects being there
C13_Witness ==
    /\ epc["p1"] = "fn_add"
    /\ LET name == ObjNameOf(earg["p1"].meta) IN
       /\ name \in DOMAIN services
       /\ name \in DOMAIN deployments
       /\ name \in DOMAIN hpas

\* ------------------------------------------- the entry of a created function
\* a creation attempt of p for a Container function that has returned success
CreatedOk(p) ==
    /\ eop[p] \in {"GetFuncSvc", "updateFunction", "AdoptExistingResources"}
    /\ epc[p] = "idle"
    /\ earg[p].exec = ExecutorTypeContainer
    /\ eret[p] # Nil /\ eret[p].err = "nil" /\ eret[p].fsvc # Nil

\* C14: once a creation attempt for a function has returned success (and the
\* function has not been deleted: nothing deletes here), a lookup by the
\* function's UID finds an entry, and the entry has the address of the created
\* service, the references to the deployment, the service and the HPA, and the
\* executor type Container.
C14_CreatedIsCached ==
    \A p \in Procs : CreatedOk(p) =>
        LET m == earg[p].meta IN
        /\ Resolves(m.uid)
        /\ Resolved(m.uid).addr = AddressOf(m)
        /\ Resolved(m.uid).kobjs = KubeObjRefs(m)
        /\ Resolved(m.uid).exec = ExecutorTypeContainer

\* --------------------------------------------------- explicit deletion
\* a deleteFunction call of p for a Container function that has returned
DeletedFn(p) ==
    /\ eop[p] = "deleteFunction" /\ epc[p] = "idle"
    /\ earg[p].exec = ExecutorTypeContainer
    /\ eret[p] # Nil
HasObjects(name) ==
    name \in (DOMAIN services \cup DOMAIN deployments \cup DOMAIN hpas)
InIndices(m) ==
    \/ CacheHas(byFunctionUID, m.uid)
    \/ CacheHas(byAddress, AddressOf(m))
    \/ \E k \in DOMAIN byFunction : k[1] = m.uid

\* C15: once deleteFunction has returned for a Container function, none of the
\* three indices holds an entry of the function however recently it was
\* accessed, and the deletion of its cluster objects was issued whether or not
\* the cache had an entry: an object of the function is left only if its
\* deletion failed, and then the returned error reports that failure.
C15_DeleteFunction ==
    \A p \in Procs : DeletedFn(p) =>
        /\ ~InIndices(earg[p].meta)
        /\ HasObjects(ObjNameOf(earg[p].meta)) => eret[p].err = "error"

\* ------------------------------------------------------------- IsValid
\* an IsValid call of p that has returned
Validated(p) == eop[p] = "IsValid" /\ epc[p] = "idle" /\ eret[p] # Nil
ObjectsOfKind(kind) ==
    IF kind = "service" THEN services
    ELSE IF kind = "deployment" THEN deployments ELSE hpas

\* C16: IsValid returns true only if every object the entry refers to (service,
\* deployment, autoscaler) exists and the deployment referred to has at least
\* one available replica; it returns false for an entry without references and
\* for an entry with an empty address.
C16_IsValid ==
    \A p \in Procs : Validated(p) =>
        LET fsvc == earg[p] IN
        /\ eret[p].valid =>
              \A i \in 1..Len(fsvc.kobjs) :
                 /\ fsvc.name \in DOMAIN ObjectsOfKind(fsvc.kobjs[i])
                 /\ fsvc.kobjs[i] = "deployment" => deployments[fsvc.name].available >= 1
        /\ (Len(fsvc.kobjs) = 0 \/ fsvc.addr = EmptyAddress) => ~eret[p].valid

\* ------------------------------------------------------ updateFunction
\* p is inside updateFunction for two Container revisions: oldFn is kept in
\* eloc[p].fn, newFn is earg[p]
UpdatePositions == {"upd_get", "upd_hpa", "upd_deploy", "upd_dget", "upd_depl"}
Updating(p) == eop[p] = "updateFunction" /\ epc[p] \in UpdatePositions
FourFields(fn) == <<fn.minScale, fn.maxScale, fn.metrics, fn.behavior>>
SameDeployInputs(oldFn, newFn) ==
    <<oldFn.secrets, oldFn.configMaps, oldFn.podSpec>> =
    <<newFn.secrets, newFn.configMaps, newFn.podSpec>>
ServedName == ObjNameOf(ServedFunction.meta)

\* C17: in an update between two Container revisions of the cached function
\* whose secrets, config maps and pod spec are equal, the deployment is neither
\* read nor written; UpdateHpa is called (the autoscaler having been read) if
\* and only if MinScale, MaxScale, Metrics or Behavior differs, and the
\* autoscaler it writes differs from the one in the cluster in exactly the
\* fields that differ between the revisions, which take the new values.
C17_HpaOnlyUpdate ==
    /\ [](\A p \in Procs : (Updating(p) /\ SameDeployInputs(eloc[p].fn, earg[p])) =>
             epc[p] \notin {"upd_dget", "upd_depl"})
    /\ [](\A p \in Procs : (Updating(p) /\ epc[p] = "upd_hpa") =>
             FourFields(eloc[p].fn) # FourFields(earg[p]))
    /\ [][\A p \in Procs :
             /\ (Updating(p) /\ SameDeployInputs(eloc[p].fn, earg[p])) =>
                   UNCHANGED <<deployments, services>>
             /\ (Enters(p, "upd_deploy") /\ epc[p] # "upd_hpa") =>
                   FourFields(eloc'[p].fn) = FourFields(earg'[p])
             /\ (epc[p] = "upd_hpa" /\ epc'[p] = "upd_deploy") =>
                   LET h == hpas[ServedName]
                       g == hpas'[ServedName]
                       o == eloc[p].fn
                       n == earg[p]
                   IN /\ g.uid = h.uid
                      /\ g.minReplicas = IF o.minScale # n.minScale THEN n.minScale
                                         ELSE h.minReplicas
                      /\ g.maxReplicas = IF o.maxScale # n.maxScale THEN n.maxScale
                                         ELSE h.maxReplicas
                      /\ g.metrics = IF o.metrics # n.metrics THEN n.metrics ELSE h.metrics
                      /\ g.behavior = IF o.behavior # n.behavior THEN n.behavior
                                      ELSE h.behavior]_vars

\* C17 witness: an update that raised MaxScale from 2 to 3 and nothing else has
\* written the autoscaler and is about to find the deployment unchanged
C17_Witness ==
    /\ Updating(InformerProc) /\ epc[InformerProc] = "upd_deploy"
    /\ eloc[InformerProc].fn.maxScale = 2 /\ earg[InformerProc].maxScale = 3
    /\ SameDeployInputs(eloc[InformerProc].fn, earg[InformerProc])
    /\ hpas[ServedName].maxReplicas = 3
    /\ hpas[ServedName].minReplicas = 1

\* C18: in an update between two Container revisions of the cached function,
\* the deployment is read and patched exactly when the secrets, the config maps
\* or the pod spec differ (no cluster call having failed), and the patched
\* deployment has the replicas of the deployment read, not the MinScale of the
\* new revision, and the pod template of the new revision.
C18_DeploymentPatch ==
    /\ [](\A p \in Procs : (Updating(p) /\ epc[p] = "upd_depl") =>
             eloc[p].got.obj.replicas = deployments[ServedName].replicas)
    /\ [][\A p \in Procs : Updating(p) =>
             /\ (epc[p] = "upd_deploy" /\ epc'[p] # "upd_deploy") =>
                   (~SameDeployInputs(eloc[p].fn, earg[p]) <=> epc'[p] = "upd_dget")
             /\ (epc'[p] = "idle" /\ eret'[p].err = "nil"
                    /\ ~SameDeployInputs(eloc[p].fn, earg[p])) =>
                   /\ epc[p] = "upd_depl"
                   /\ deployments'[ServedName].replicas = deployments[ServedName].replicas
                   /\ deployments'[ServedName].template = TemplateOf(earg[p])]_vars

\* C18 witness: the update to the revision with pod spec pod2 has returned, the
\* deployment has the new template and still the replicas the autoscaler gave it
C18_Witness ==
    /\ eop[InformerProc] = "updateFunction" /\ epc[InformerProc] = "idle"
    /\ eret[InformerProc] # Nil /\ eret[InformerProc].err = "nil"
    /\ earg[InformerProc].podSpec = "pod2"
    /\ deployments[ServedName].template = TemplateOf(earg[InformerProc])
    /\ deployments[ServedName].replicas = MaxReplicas
    /\ earg[InformerProc].minScale # MaxReplicas

\* C19: updateFunction does nothing (no cluster or cache operation) when the
\* resource versions are equal or neither revision is a Container function;
\* when the type changes from Container it starts the delete path with the old
\* record, when it changes to Container the creation path with the new record;
\* an autoscaler or a deployment is written over only in an update between two
\* Container revisions.
IsContainer(fn) == fn.exec = ExecutorTypeContainer
C19_Dispatch ==
    /\ [](\A p \in Procs : Updating(p) => IsContainer(eloc[p].fn) /\ IsContainer(earg[p]))
    /\ [][\A p \in Procs :
             /\ (epc[p] = "idle" /\ execVars' # execVars /\ eop'[p] = "updateFunction") =>
                   LET oldFn == OldFn
                       newFn == earg'[p]
                   IN IF \/ oldFn.meta.rv = newFn.meta.rv
                         \/ (~IsContainer(oldFn) /\ ~IsContainer(newFn))
                      THEN /\ epc'[p] = "idle" /\ eret'[p] = Result(Nil, "nil")
                           /\ UNCHANGED <<cacheVars, procVars, locks, clusterVars, tasks>>
                      ELSE IF IsContainer(oldFn) /\ ~IsContainer(newFn)
                      THEN /\ epc'[p] = "del_get" /\ eloc'[p].fn = oldFn
                           /\ op'[p] = "GetByFunctionUID"
                      ELSE IF ~IsContainer(oldFn) /\ IsContainer(newFn)
                      THEN epc'[p] \in {"fn_svc", "cb_get", "thr_wait"}
                      ELSE epc'[p] \in {"upd_get", "upd_deploy"}]_vars
    /\ [][/\ (ServedName \in DOMAIN hpas /\ ServedName \in DOMAIN hpas'
               /\ hpas'[ServedName] # hpas[ServedName]) =>
                  \E p \in Procs : Updating(p) /\ epc[p] = "upd_hpa"
          /\ (ServedName \in DOMAIN deployments /\ ServedName \in DOMAIN deployments'
               /\ deployments'[ServedName] # deployments[ServedName]) =>
                  \E p \in Procs : Updating(p) /\ epc[p] = "upd_depl"]_vars

\* C19 witness: the function has become a Poolmgr function and updateFunction is
\* in the delete path with the old, Container, record
C19_Witness ==
    /\ eop[InformerProc] = "updateFunction" /\ epc[InformerProc] = "del_old"
    /\ ~IsContainer(earg[InformerProc])
    /\ IsContainer(eloc[InformerProc].fn)

\* ---------------------------------------------------- the copies returned
Indices == <<heap, byFunction, byAddress, byFunctionUID>>
\* C20: a lookup that finds no entry returns NotFound and leaves the cache as it
\* was; a lookup that finds one returns the value of the cached record; a touch
\* or a lookup (a store to Atime) changes no value already returned; and a write
\* of a caller to the value it holds changes nothing in the cache.
C20_LookupCopies ==
    [][/\ \A p \in Procs :
            (op'[p] \in {"GetByFunction", "GetByFunctionUID"} /\ ret'[p] # ret[p]
               /\ ret'[p] # Nil /\ ret'[p].err = "NotFound") => UNCHANGED Indices
       /\ \A p \in Procs :
            (pc[p] = "get_copy" /\ pc'[p] = "idle") => ret'[p].fsvc = heap[loc[p].ptr]
       /\ (\E i \in 1..Len(heap) : heap'[i].atime # heap[i].atime) =>
              \A q \in Procs : pc[q] = "idle" => ret'[q] = ret[q]
       /\ \A q \in Procs :
            (HoldsCopy(q) /\ pc'[q] = "idle" /\ ret'[q] # Nil /\ ret'[q].fsvc # Nil
               /\ ret'[q] # ret[q]) => UNCHANGED Indices]_vars

\* what a caller sees through the []*FuncSvc that ListOld returned to it
ListedBy(p) ==
    IF op[p] = "ListOld" /\ pc[p] = "idle" /\ ret[p] # Nil THEN ret[p].objects ELSE {}

\* C21: what ListOld handed to its caller is a snapshot: no step taken after ListOld
\* has returned (an Atime refresh by the worker or by a lookup) changes what the
\* caller sees through the values returned.
C21_ListOldSnapshot ==
    [][\A p \in Procs : \A f \in ListedBy(p) :
          ListedBy(p)' = ListedBy(p) => heap'[f] = heap[f]]_vars

\* the entries of the by-function index idle for more than age
IdleEntries(age) ==
    {byFunction[k] : k \in {x \in DOMAIN byFunction : Since(heap[byFunction[x]].atime) > age}}

\* C22: after any sequence of Add and DeleteEntry calls, ListOld(age) returns the
\* entries of the by-function index idle for more than age, all of them and no other.
C22_ListOldComplete ==
    [][\A p \in Procs :
          (op[p] = "ListOld" /\ pc[p] = "wait" /\ pc'[p] = "idle") =>
              ret'[p].objects = IdleEntries(arg[p])]_vars

\* C23: in Add the two secondary inserts fail independently: after the by-address
\* insert, collision or not, Add goes on to the by-UID insert; a collision in either
\* makes Add return no error, and the primary insert stays.
C23_SecondaryInsertsIndependent ==
    [][\A p \in Procs :
          /\ (op[p] = "Add" /\ pc[p] = "add_addr" /\ pc'[p] # "add_addr") =>
                 /\ pc'[p] = "add_uid"
                 /\ byFunction' = byFunction
          /\ (op[p] = "Add" /\ pc[p] = "add_uid" /\ pc'[p] # "add_uid") =>
                 /\ pc'[p] = "idle" /\ ret'[p].err = "nil"
                 /\ byFunction' = byFunction]_vars

\* p is in DeleteEntry(fsvc), at any of its three deletes
Deleting(p) == op[p] = "DeleteEntry" /\ pc[p] \in {"del_addr", "del_uid"}
\* the entries an index holds for functions other than the one of UID u
OthersByFunction(u) == [k \in {x \in DOMAIN byFunction : x[1] # u} |-> byFunction[k]]
OthersByAddress(u) == [a \in {x \in DOMAIN byAddress : byAddress[x].uid # u} |-> byAddress[a]]
OthersByFunctionUID(u) == [k \in DOMAIN byFunctionUID \ {u} |-> byFunctionUID[k]]

\* C24: when DeleteEntry(fsvc) returns, none of the three indices holds the
\* function key, the address or the UID of fsvc, whichever of them held it
\* before; it returns no error; and no step of it changes what the indices hold
\* for other functions.
C24_DeleteEntry ==
    [][\A p \in Procs :
          /\ (Deleting(p) /\ pc'[p] = "idle") =>
                 /\ ~CacheHas(byFunction', CacheKeyURFromMeta(arg[p].fn))
                 /\ ~CacheHas(byAddress', arg[p].addr)
                 /\ ~CacheHas(byFunctionUID', arg[p].fn.uid)
                 /\ ret'[p].err = "nil"
          /\ ((Deleting(p) \/ Deleting(p)') /\ pc'[p] # pc[p]) =>
                 /\ \A u \in UIDs : arg'[p].fn.uid = u =>
                        /\ OthersByFunction(u)' = OthersByFunction(u)
                        /\ OthersByAddress(u)' = OthersByAddress(u)
                        /\ OthersByFunctionUID(u)' = OthersByFunctionUID(u)
                 /\ heap' = heap]_vars

\* DeleteEntry has returned for a revision of u1, with u2 cached: u2 is all there
\* is in the indices
C24_Witness ==
    \E p \in Procs :
       /\ op[p] = "DeleteEntry" /\ pc[p] = "idle" /\ ret[p] # Nil
       /\ arg[p].fn = Meta("u1", 2)
       /\ DOMAIN byFunctionUID = {"u2"}
       /\ DOMAIN byAddress = {AddressOf(Meta("u2", 1))}
       /\ DOMAIN byFunction = {CacheKeyURFromMeta(Meta("u2", 1))}

\* an adoption or a creation of p that has returned
Adopted(p) ==
    /\ eop[p] \in {"AdoptExistingResources", "GetFuncSvc"}
    /\ epc[p] = "idle" /\ eret[p] # Nil
\* the records ever stored for the function of UID u
RecordsOf(u) == {i \in 1..Len(heap) : heap[i].fn.uid = u}

\* C25: adoption (or creation) of a Container function whose Service, Deployment
\* and HPA exist changes no cluster object; once it has returned, the cache
\* resolves the function's UID to the address of the existing service; and
\* running it again leaves the cache entry as the first run made it (the
\* access time apart).
C25_AdoptionIdempotent ==
    /\ [](\A p \in Procs : Adopted(p) =>
             /\ eret[p].err = "nil"
             /\ Resolves(earg[p].meta.uid)
             /\ ObjNameOf(earg[p].meta) \in DOMAIN services
             /\ Resolved(earg[p].meta.uid).addr = <<ObjNameOf(earg[p].meta), "ns">>)
    /\ [][/\ services' = services /\ deployments' = deployments /\ hpas' = hpas
          /\ \A u \in UIDs : Resolves(u) =>
                /\ Resolves(u)'
                /\ byFunctionUID'[u] = byFunctionUID[u]
                /\ SameEntry(Resolved(u)', Resolved(u))
                /\ RecordsOf(u)' = RecordsOf(u)
                /\ {a \in DOMAIN byAddress : byAddress[a].uid = u}'
                      = {a \in DOMAIN byAddress : byAddress[a].uid = u}]_vars

\* the function u1 has been adopted and then created again, at a later time
C25_Witness ==
    /\ now = MaxTime
    /\ Adopted("p1") /\ eop["p1"] = "AdoptExistingResources" /\ earg["p1"].meta.uid = "u1"
    /\ Adopted("p2") /\ eop["p2"] = "GetFuncSvc" /\ earg["p2"].meta.uid = "u1"
    /\ Resolved("u1").atime = MaxTime

\* AdoptExistingResources is over: it has returned, and the goroutines it started
\* and the cleanups they started have finished
AdoptionOver(t) ==
    /\ t.pc \in {"adopt_done", "adopt_returned"}
    /\ \A x \in tasks : x.pc \notin {"adopt_fn", "cleanup"}
    /\ \A p \in Procs : epc[p] = "idle"
\* the goroutine started for fn returned an error
AdoptionFailed(fn) ==
    LET p == GoroutineOf(fn) IN
    eop[p] = "AdoptExistingResources" /\ eret[p] # Nil /\ eret[p].err # "nil"

\* C26: adoption failures are isolated: when AdoptExistingResources is over, every
\* Container function has been adopted (the cache resolves its UID), unless its
\* own adoption failed or the List of its own namespace failed; a failure for
\* another function or another namespace does not prevent it.
C26_AdoptionIsolated ==
    \A t \in tasks : AdoptionOver(t) =>
       \A u \in DOMAIN functions :
          (/\ functions[u].exec = ExecutorTypeContainer
           /\ NamespaceOf(functions[u]) \notin t.failed
           /\ ~AdoptionFailed(functions[u])) => Resolves(u)

\* the reaper half of C26: a pass takes up every entry ListOld gave it, one after
\* the other, whatever the Get of a function or a scale call returned: it leaves
\* its loop only when no entry is left, and no task changes what is left
ReaperIsolated ==
    [][LET p == ReaperProc IN
       /\ (epc[p] = "reap_loop" /\ epc'[p] # "reap_loop") =>
              IF eloc[p].todo = {} THEN epc'[p] = "idle"
              ELSE epc'[p] = "reap_check" /\ Cardinality(eloc'[p].todo) = Cardinality(eloc[p].todo) - 1
       /\ (epc[p] = "reap_loop" /\ epc'[p] = "reap_loop") =>
              \/ eloc'[p] = eloc[p]
              \/ Cardinality(eloc'[p].todo) = Cardinality(eloc[p].todo) - 1
       /\ (epc[p] = "reap_check" /\ epc'[p] # "reap_check") =>
              epc'[p] = "reap_loop" /\ eloc'[p].todo = eloc[p].todo]_vars

\* C27: when the creation callback of a GetFuncSvc fails, the caller and the
\* callers blocked on that invocation get the error (and no FuncSvc), and the
\* throttler holds nothing for the UID any more; a GetFuncSvc for a UID the
\* throttler holds nothing for runs the creation (ableToCreate = true), not the
\* cache lookup.
C27_FailedThenFresh ==
    [][\A p \in Procs :
          /\ (eop[p] = "GetFuncSvc" /\ InFnCreate(p) /\ epc'[p] = "idle"
                 /\ eret'[p].err # "nil") =>
                 /\ eret'[p].fsvc = Nil
                 /\ earg[p].meta.uid \notin DOMAIN locks'
                 /\ \A q \in Procs \ {p} :
                       (epc[q] = "thr_wait" /\ earg[q].meta.uid = earg[p].meta.uid) =>
                          eloc'[q].got # Nil /\ eloc'[q].got.err = eret'[p].err
          /\ (epc[p] = "thr_wait" /\ epc'[p] = "idle") =>
                 /\ eret'[p].err = eloc[p].got.err
                 /\ eret'[p].err # "nil" => eret'[p].fsvc = Nil
          /\ (epc[p] = "idle" /\ epc'[p] # "idle" /\ eop'[p] = "GetFuncSvc"
                 /\ earg'[p].meta.uid \notin DOMAIN locks) =>
                 epc'[p] = "fn_svc" /\ eloc'[p].first]_vars

\* a GetFuncSvc of one goroutine failed, and the fresh attempt of the other for the
\* same function has created the objects and stored the entry
C27_Witness ==
    \E p, q \in Procs :
       /\ eop[p] = "GetFuncSvc" /\ epc[p] = "idle" /\ eret[p] # Nil /\ eret[p].err # "nil"
       /\ eop[q] = "GetFuncSvc" /\ epc[q] = "fn_added" /\ eloc[q].first
       /\ earg[q].meta.uid = earg[p].meta.uid
       /\ Returned(q) /\ ret[q].err = "nil"
       /\ Resolves(earg[q].meta.uid)

\* p is about to store Atime of the live record ptr from its own goroutine
StoresAtime(p, ptr) == pc[p] \in {"get_store", "add_atime"} /\ loc[p].ptr = ptr

\* C28: Atime of a cached record is written by the worker of the fsCache only (in
\* its TOUCH step), never by a calling goroutine, and no two writes of one
\* record's Atime are concurrent.
C28_WorkerOwnsAtime ==
    /\ [][\A i \in 1..Len(heap) :
             heap'[i].atime # heap[i].atime =>
                wpc = "touch_store" /\ wloc.ptr = i /\ pc' = pc]_vars
    /\ [](\A i \in 1..Len(heap) : \A p, q \in Procs :
             (StoresAtime(p, i) /\ StoresAtime(q, i)) => p = q)

\* C29: the object name of a function depends on its name, its namespace and its
\* UID only (another resource version gives the same name), is lower-case, and
\* has at most 63 characters, for every name, namespace and UID of 17 characters
\* or more.
C29_ObjName ==
    \A p \in Procs : eop[p] = "getObjName" =>
       LET objName == eret[p].name IN
       /\ \A r \in RVs : getObjName([earg[p] EXCEPT !.rv = r]) = objName
       /\ ToLower(objName) = objName
       /\ Len(objName) <= 63

\* the name of a function whose name and namespace are both cut has 63 characters
C29_Witness ==
    \E p \in Procs :
       /\ eop[p] = "getObjName"
       /\ Len(earg[p].name) > 17 /\ Len(earg[p].namespace) > 17
       /\ earg[p].name[1] = "A" /\ Len(earg[p].uid) > 17
       /\ Len(eret[p].name) = 63

\* the cached records tagged with another executor type than Container
OtherTagged == {i \in 1..Len(heap) : heap[i].exec # ExecutorTypeContainer}

\* C30: the reaper reads the function and the deployment, and makes a scale call,
\* for entries tagged Container only: an entry with another tag is never looked at
\* past its tag, gets no task and no call, and its deployment stays as it is.
C30_OnlyContainerEntries ==
    /\ [](/\ epc[ReaperProc] = "reap_check" => eloc[ReaperProc].ptr \notin OtherTagged
          /\ \A t \in tasks : t.ptr \notin OtherTagged
          /\ \A e \in rlog.evals : e.ptr \notin OtherTagged
          /\ \A i \in DOMAIN rlog.calls : rlog.calls[i].ptr \notin OtherTagged)
    /\ [][\A i \in OtherTagged :
             deployments'[heap[i].name] = deployments[heap[i].name]]_vars

\* a pass at time 61 is over: ListOld gave it both entries, idle for a minute;
\* the deployment of f1 was scaled to its MinScale, the one of f2 has its replicas
C30_Witness ==
    /\ PassOver
    /\ rlog.snap.at = 61
    /\ \A i \in 1..Len(heap) : heap[i].atime = 1
    /\ OtherTagged = {2}
    /\ \E i \in DOMAIN rlog.calls : rlog.calls[i].ptr = 1
    /\ deployments[heap[1].name].replicas = 1
    /\ deployments[heap[2].name].replicas = MaxReplicas

\* the entries of pool that are gone after the step (their address is no longer
\* under their key)
Evicted ==
    {e \in pool : \A x \in pool' : ~(x.key = e.key /\ x.address = e.address)}

BuilderOnV1(a) ==
    /\ a.env.version = 1
    /\ \/ (IF IsSet(a.input, "builderImage") THEN a.input["builderImage"]
                                            ELSE a.env.builderImage) # ""
       \/ (IF IsSet(a.input, "builderCommand") THEN a.input["builderCommand"]
                                              ELSE a.env.builderCommand) # ""
\* a maximum of zero is no limit
MinAboveMax(a, min, max) ==
    IF IsSet(a.input, min) /\ IsSet(a.input, max)
    THEN a.input[max] # 0 /\ a.input[min] > a.input[max]
    ELSE FALSE
Broken(a) ==
    (IF BuilderOnV1(a) THEN {"version 1 Environments do not support builders"} ELSE {})
      \cup (IF MinAboveMax(a, "mincpu", "maxcpu")
            THEN {"minCPU cannot be greater than MaxCPU"} ELSE {})
      \cup (IF MinAboveMax(a, "minmemory", "maxmemory")
            THEN {"minMemory cannot be greater than MaxMemory"} ELSE {})
\* the command has got the environment and has returned
Validated32(p) ==
    /\ eop[p] = "Update" /\ epc[p] = "idle"
    /\ eret[p].err # <<"error finding environment">>

\* C32: when the command line breaks validation rules, the error the command
\* returns names every one of them, updateExistingEnvironmentWithCmd returns no
\* environment (run is not reached) and nothing is given to Environments.Update.
C32_AllErrorsTogether ==
    LET a == earg[CliProc] IN
    Broken(a) # {} =>
        /\ epc[CliProc] # "env_run"
        /\ Validated32(CliProc) =>
              /\ {eret[CliProc].err[i] : i \in DOMAIN eret[CliProc].err} = Broken(a)
              /\ eret[CliProc].sent = Nil

\* a builder image for a version-1 environment, mincpu 2 above maxcpu 1 and
\* minmemory 2 above maxmemory 1: the error has the three messages
C32_Witness ==
    /\ Validated32(CliProc)
    /\ earg[CliProc].env.version = 1
    /\ IsSet(earg[CliProc].input, "builderImage")
    /\ \A f \in {"mincpu", "minmemory"} :
          IF IsSet(earg[CliProc].input, f) THEN earg[CliProc].input[f] = 2 ELSE FALSE
    /\ \A f \in {"maxcpu", "maxmemory"} :
          IF IsSet(earg[CliProc].input, f) THEN earg[CliProc].input[f] = 1 ELSE FALSE
    /\ Len(eret[CliProc].err) = 3
    /\ eret[CliProc].sent = Nil

\* the command has given an environment to Environments.Update
Sent(p) == IF eop[p] = "Update" /\ epc[p] = "idle" THEN eret[p].sent # Nil ELSE FALSE

\* C40: a command line with no CPU and no memory flag leaves the resource
\* requests and limits of the environment as they were: the environment given to
\* Environments.Update has the requests and limits the API returned.
C40_ResourcesKept ==
    LET a == earg[CliProc] IN
    (Sent(CliProc) /\ DOMAIN a.input \cap ResourceFlags = {}) =>
        /\ eret[CliProc].sent.requests = a.env.requests
        /\ eret[CliProc].sent.limits = a.env.limits

\* the worker is at a lookup of _touchByAddress that misses: the address is not in
\* byAddress, or the key of the function it maps to is not in byFunction
TouchMisses ==
    \/ wpc = "touch_addr" /\ ~CacheHas(byAddress, wreq.address)
    \/ wpc = "touch_fn" /\ ~CacheHas(byFunction, CacheKeyURFromMeta(wloc.m))

\* C33: a touch whose lookup misses stores no Atime and answers NotFound;
\* TouchByAddress returns the worker's answer and TapService returns what
\* TouchByAddress returned.
C33_TouchNotFound ==
    /\ [][(TouchMisses /\ wpc' # wpc) =>
             /\ wpc' = "reply" /\ wloc'.err = "NotFound"
             /\ \A i \in 1..Len(heap) : heap'[i].atime = heap[i].atime]_vars
    /\ [][\A p \in Procs :
             (op[p] = "TouchByAddress" /\ pc[p] = "wait" /\ pc'[p] = "idle") =>
                 ret'[p].err = wloc.err]_vars
    /\ [][(epc[RouterProc] = "tap" /\ epc'[RouterProc] = "idle") =>
             eret'[RouterProc].err = ret[RouterProc].err]_vars

\* the worker is about to answer NotFound to a tap of the router: the address was
\* in byAddress, the key of its function was gone from byFunction
C33_Witness ==
    /\ wpc = "reply" /\ wloc.err = "NotFound" /\ wloc.m # Nil
    /\ wreq.from = RouterProc /\ eop[RouterProc] = "TapService"
    /\ Len(heap) > 0

\* C34: when no Add and no DeleteEntry is in progress, the metadata every
\* by-address and by-UID entry holds has its key in the by-function index, and
\* every by-function entry is the one the by-UID index leads to under the UID of
\* its function.
C34_IndexConsistency ==
    Quiet =>
        /\ \A a \in DOMAIN byAddress :
              CacheHas(byFunction, CacheKeyURFromMeta(byAddress[a]))
        /\ \A u \in DOMAIN byFunctionUID :
              CacheHas(byFunction, CacheKeyURFromMeta(byFunctionUID[u]))
        /\ \A k \in DOMAIN byFunction :
              LET u == heap[byFunction[k]].fn.uid IN
              IF CacheHas(byFunctionUID, u)
              THEN CacheKeyURFromMeta(byFunctionUID[u]) = k ELSE FALSE

\* the keys of the by-function index that belong to the function with UID u
KeysOf(u) == {k \in DOMAIN byFunction : k[1] = u}

\* C35: the by-function index never holds more than one entry for a function
\* UID, whatever resource versions the creation attempts carry.
C35_OneEntryPerUID == \A u \in UIDs : Cardinality(KeysOf(u)) <= 1

\* the scale-down tasks that make their scale call in this step
Scaling == {t \in tasks : t.pc = "scale" /\ t \notin tasks'}

\* C36: when a task makes its scale call, the last access to the cache entry of
\* the deployment lies at least the idle timeout of the function back, also when
\* the entry was accessed after the reaper had found it idle.
C36_NoScaleAfterAccess ==
    [][\A t \in Scaling :
          now - heap[t.ptr].atime >= IdlePodReapTime(t.fn)]_vars

\* C37: DeleteOld goes on to delete only when the cached entry itself has been
\* idle for minAge: an entry touched or looked up less than minAge ago stays,
\* whatever Atime the value the caller passes carries.
C37_DeleteOldLiveAge ==
    [][\A p \in Procs :
         LET a == arg'[p]
             key == CacheKeyURFromMeta(a.fn)
         IN  (op'[p] = "DeleteOld" /\ pc[p] = "idle" /\ pc'[p] = "del_addr"
                /\ CacheHas(byFunction, key)) =>
                 Since(heap[byFunction[key]].atime) >= a.minAge
      ]_vars

\* the entries the worker appends to the answer of a ListOld in this step
Appended ==
    IF wreq.requestType = "LISTOLD" /\ wpc = "list_iter" THEN wloc'.out \ wloc.out ELSE {}

\* C38: an entry that ListOld(age), age > 0, returns has its last-access time
\* set, and more than age back: an entry just added and not accessed since is
\* not returned, however the ListOld and the Add of the entry interleave.
C38_ListOldSeesAtime ==
    [][wreq.age > 0 =>
         \A f \in Appended :
             heap[f].atime # ZeroTime /\ now - heap[f].atime > wreq.age]_vars

\* the goroutine p is in, or has returned from, GetFuncSvc for a function of
\* another executor type than Container
ForeignCall(p) ==
    IF eop[p] = "GetFuncSvc" THEN earg[p].exec # ExecutorTypeContainer ELSE FALSE

====
